---------------------------- MODULE Spec2Model ----------------------------
(***************************************************************************)
(* A model of the JVMTI event dispatch engine of                           *)
(* src/hotspot/share/prims/jvmtiExport.cpp: the phase gate, the            *)
(* environment registry and its enablement bits, the per-thread event      *)
(* state, the post_* operations and the event collectors.                  *)
(*                                                                         *)
(* Every operation is one action.  An agent callback is not run: its       *)
(* invocation is appended to `log', which holds the callbacks invoked by   *)
(* the operation that produced the current state, and `lastOp' names that  *)
(* operation and its inputs.                                               *)
(***************************************************************************)
EXTENDS Integers, Sequences, FiniteSets

\* Bounds of the model.
MaxEnvs == 2
MaxLoc == 2
MaxDepth == 2
MaxBuf == 2
MaxStack == 2
MaxFrames == 6
MaxWatch == 2
MaxFree == 2
MaxMarkDepth == 3

Threads == {"t1", "t2"}
NoThread == "none"

\* The event kinds of the catalog that the modelled operations post.
ClassLoad == "ClassLoad"
ClassFileLoadHook == "ClassFileLoadHook"
SingleStep == "SingleStep"
Breakpoint == "Breakpoint"
VMObjectAlloc == "VMObjectAlloc"
SampledObjectAlloc == "SampledObjectAlloc"
DynamicCodeGenerated == "DynamicCodeGenerated"
GarbageCollectionStart == "GarbageCollectionStart"
VMDeath == "VMDeath"
ClassUnload == "ClassUnload"
CompiledMethodLoad == "CompiledMethodLoad"
MethodEntry == "MethodEntry"
Exception == "Exception"
ThreadStart == "ThreadStart"
FieldAccess == "FieldAccess"
FieldModification == "FieldModification"
ExceptionCatch == "ExceptionCatch"
CompiledMethodUnload == "CompiledMethodUnload"
VMStart == "VMStart"
MethodExit == "MethodExit"
FramePop == "FramePop"
ObjectFree == "ObjectFree"
ClassPrepare == "ClassPrepare"
MonitorContendedEnter == "MonitorContendedEnter"
MonitorContendedEntered == "MonitorContendedEntered"
MonitorWait == "MonitorWait"
MonitorWaited == "MonitorWaited"
NativeMethodBind == "NativeMethodBind"
ResourceExhausted == "ResourceExhausted"

Kinds ==
  {ClassLoad, ClassFileLoadHook, SingleStep, Breakpoint, VMObjectAlloc,
   SampledObjectAlloc, DynamicCodeGenerated, GarbageCollectionStart, VMDeath,
   ClassUnload, CompiledMethodLoad, MethodEntry, Exception, ThreadStart,
   FieldAccess, FieldModification, ExceptionCatch, CompiledMethodUnload, VMStart,
   MethodExit, FramePop, ObjectFree, ClassPrepare, MonitorContendedEnter,
   MonitorContendedEntered, MonitorWait, MonitorWaited, NativeMethodBind,
   ResourceExhausted}

\* Kinds that can be enabled for one thread only (JvmtiEnvThreadState bits).
ThreadFilteredKinds ==
  {ClassLoad, SingleStep, Breakpoint, SampledObjectAlloc, MethodEntry, Exception,
   FieldAccess, FieldModification, ExceptionCatch, MethodExit, FramePop, ClassPrepare,
   MonitorContendedEnter, MonitorContendedEntered, MonitorWait, MonitorWaited}

\* The kinds of JvmtiEventCollector, one slot each in the thread state.
CollectorKinds == {"vm_object_alloc", "sampled_object_alloc", "dynamic_code"}

\* JvmtiClassLoadKind
LoadKinds == {"load", "retransform", "redefine"}

\* The lifecycle phases in the order the phase gate advances through them.
PhaseOrder == <<"PRIMORDIAL", "START", "ONLOAD", "LIVE", "DEAD">>

Phases == {PhaseOrder[i] : i \in 1..Len(PhaseOrder)}

PhaseRank(p) == CHOOSE i \in 1..Len(PhaseOrder) : PhaseOrder[i] = p

VARIABLES
  phase,            \* JvmtiEnvBase::_phase
  envs,             \* the registry: environments in registration order
  has_state,        \* has_state[t]: thread->jvmti_thread_state() != nullptr
  vthread_mounted,  \* vthread_mounted[t]: thread->is_vthread_mounted()
  hide,             \* hide[t]: thread->should_hide_jvmti_events()
  cur_loc,          \* cur_loc[t][e]: JvmtiEnvThreadState current location (0: none)
  ss_posted,        \* ss_posted[t][e]: JvmtiEnvThreadState::_single_stepping_posted
  bp_posted,        \* bp_posted[t][e]: JvmtiEnvThreadState::_breakpoint_posted
  at,               \* history: the last location a location event observed on t
  ss_count,         \* history: SingleStep callbacks to e on t since at[t] changed
  bp_count,         \* history: Breakpoint callbacks to e on t since at[t] changed
  slot,             \* slot[t][ck]: the thread state's current collector of kind ck (0: none)
  scopes,           \* scopes[t]: the collectors and marks alive on t's stack, outermost first
  deferred,         \* the service thread's queue of deferred events, oldest first
  exc_state,        \* exc_state[t]: JvmtiThreadState exception state of t
  cur_stack_depth,  \* cur_stack_depth[t]: the cached stack depth (UNKNOWN_STACK_DEPTH: invalid)
  thread_state,     \* thread_state[t]: JavaThread::thread_state()
  handle_depth,     \* handle_depth[t]: the JNI handle blocks pushed on t
  frames,           \* frames[t]: the event marks, transitions and VM entries open on t
  field_count,      \* _field_access_count and _field_modification_count
  field_seen,       \* field_seen[t]: the counter values a read by t returns
  pending_exception, \* pending_exception[t]: the thread's pending Java exception ("none": none)
  vm_start_calls,   \* history: which of post_early_vm_start and post_vm_start have run
  vm_start_count,   \* history: vm_start_count[e]: the VMStart callbacks e has received
  class_data,       \* the class-file bytes of the caller of the class-file-load hook
  cached_class_file, \* the cached original bytes: <<>> for null, else <<bytes>>
  exit_pc,          \* exit_pc[t]: where t is in post_method_exit_inner ("idle": outside)
  exit_i,           \* exit_i[t]: the environment that t's loop in post_method_exit_inner is at
  lock_owner,       \* the thread that holds JvmtiThreadState_lock (NoThread: free)
  object_free_events, \* the tags of freed objects whose ObjectFree event is pending
  death_pc,         \* where the exiting thread is in post_vm_death ("idle": outside)
  death_i,          \* the environment that the loop of post_vm_death is at
  frame_pops,       \* frame_pops[t][e]: the frame numbers of t with a frame pop request of e
  flush,            \* flush[t]: the collector of t that is flushing (id 0: none) and its progress
  poster_pc,        \* poster_pc[t]: where t is in the constructor of the class-file-load-hook poster
  has_default_read_edges, \* has_default_read_edges[m]: ModuleEntry::_has_default_read_edges
  default_read_edges_added, \* history: the threads that called add_default_read_edges for m
  posted,           \* the internal posts made by the last operation, in order
  log,              \* the callbacks invoked by the last operation, in order
  lastOp            \* the last operation and its inputs

regVars == <<envs>>
threadVars == <<has_state, vthread_mounted, hide>>
locVars == <<cur_loc, ss_posted, bp_posted>>
histVars == <<at, ss_count, bp_count>>
collVars == <<slot, scopes, deferred>>
excVars == <<exc_state, cur_stack_depth>>
callVars == <<thread_state, handle_depth, frames>>
fieldVars == <<field_count, field_seen>>
modVars == <<pending_exception>>
startVars == <<vm_start_calls, vm_start_count>>
hookVars == <<class_data, cached_class_file>>
lockVars == <<exit_pc, exit_i, lock_owner>>
deathVars == <<object_free_events, death_pc, death_i>>
popVars == <<frame_pops>>
flushVars == <<flush>>
edgeVars == <<poster_pc, has_default_read_edges, default_read_edges_added>>
lastVars == <<flushVars, edgeVars>>
lateVars == <<deathVars, popVars, lastVars>>
sideVars == <<modVars, startVars, hookVars, lockVars, lateVars>>
extVars == <<excVars, callVars, fieldVars, sideVars>>

\* The program's state: everything but the observation variables.
progVars == <<phase, regVars, threadVars, locVars, collVars, extVars>>

vars ==
  <<phase, regVars, threadVars, locVars, histVars, collVars, extVars, posted, log, lastOp>>

EnvIds == 1..MaxEnvs

\* JvmtiThreadState::ExceptionState
ES_CLEARED == "ES_CLEARED"
ES_DETECTED == "ES_DETECTED"
ES_CAUGHT == "ES_CAUGHT"

ExceptionStates == {ES_CLEARED, ES_DETECTED, ES_CAUGHT}

\* JvmtiThreadState::UNKNOWN_STACK_DEPTH
UNKNOWN_STACK_DEPTH == -99

\* The Java exceptions an up-call or a callback can leave pending.
NoException == "none"
IllegalArgumentException == "java.lang.IllegalArgumentException"
OtherException == "java.lang.Error"

Throwables == {IllegalArgumentException, OtherException}

\* Class-file bytes are named by where they come from: the bytes the caller
\* hands to the hook are OriginalBytes, the bytes that the callback of
\* environment e returns are e.
OriginalBytes == 0

Op(name, t, a, b) == [op |-> name, thread |-> t, arg |-> a, flag |-> b]

Callback(e, k, t, a) == [env |-> e, kind |-> k, thread |-> t, arg |-> a]

-----------------------------------------------------------------------------
(* Phase gate *)

\* Mutant: the phase is stored whatever the current phase is.
set_phase_unchecked(next_phase) == phase' = next_phase

\* JvmtiEnvBase::set_phase as the phase gate's advance(next_phase): the phase
\* moves to next_phase only if that is the phase right after the current one.
set_phase(next_phase) ==
  phase' = IF PhaseRank(next_phase) = PhaseRank(phase) + 1 THEN next_phase ELSE phase

enter_primordial_phase ==
  /\ set_phase("PRIMORDIAL")
  /\ log' = <<>>
  /\ posted' = <<>>
  /\ lastOp' = Op("enter_primordial_phase", NoThread, 0, FALSE)
  /\ UNCHANGED <<extVars, regVars, threadVars, locVars, histVars, collVars>>

enter_start_phase ==
  /\ set_phase("START")
  /\ log' = <<>>
  /\ posted' = <<>>
  /\ lastOp' = Op("enter_start_phase", NoThread, 0, FALSE)
  /\ UNCHANGED <<extVars, regVars, threadVars, locVars, histVars, collVars>>

enter_onload_phase ==
  /\ set_phase("ONLOAD")
  /\ log' = <<>>
  /\ posted' = <<>>
  /\ lastOp' = Op("enter_onload_phase", NoThread, 0, FALSE)
  /\ UNCHANGED <<extVars, regVars, threadVars, locVars, histVars, collVars>>

enter_live_phase ==
  /\ set_phase("LIVE")
  /\ log' = <<>>
  /\ posted' = <<>>
  /\ lastOp' = Op("enter_live_phase", NoThread, 0, FALSE)
  /\ UNCHANGED <<extVars, regVars, threadVars, locVars, histVars, collVars>>

-----------------------------------------------------------------------------
(* Environment registry and enablement index *)

\* JvmtiEnvIterator: the environments in registration order.
JvmtiEnvIterator == [i \in 1..Len(envs) |-> i]

\* JvmtiEnvBase::phase()
env_phase(e) == phase

\* JvmtiEnvBase::is_enabled: the environment's global bit for the event.
\* Recomputation at DEAD (JvmtiEventController::vm_death) leaves no bit set.
env_is_enabled(e, k) == phase # "DEAD" /\ k \in envs[e].enabled

\* JvmtiEnvThreadState::is_enabled: enabled globally in the environment or
\* for this thread only.
ets_is_enabled(t, e, k) ==
  phase # "DEAD" /\ (k \in envs[e].enabled \/ k \in envs[e].tenabled[t])

\* JvmtiThreadState::is_enabled: some environment's bit for this thread.
state_is_enabled(t, k) == \E e \in 1..Len(envs) : ets_is_enabled(t, e, k)

\* JvmtiEventController::is_enabled / JvmtiExport::should_post_*: the global
\* bit, set when any environment has the event enabled for any thread.
should_post(k) ==
  \E e \in 1..Len(envs) : env_is_enabled(e, k) \/ \E t \in Threads : ets_is_enabled(t, e, k)

has_callback(e, k) == k \in envs[e].callbacks

\* JvmtiEnvBase::is_retransformable, early_class_hook_env: capability bits.
is_retransformable(e) == "can_retransform_classes" \in envs[e].caps

early_class_hook_env(e) == "can_generate_early_class_hook_events" \in envs[e].caps

\* The capability sets an agent asks for at registration.
CapabilitySets ==
  {{}, {"can_retransform_classes"},
   {"can_retransform_classes", "can_generate_early_class_hook_events"}}

\* The callback tables an agent installs: every entry set, or none.
CallbackTables == {Kinds, {}}

\* VM_Version::vm_major_version()
vm_major_version == 26

\* The versions an agent asks for, as <<major, minor>>.
JVMTI_VERSION_1_2 == <<1, 2>>

Versions == {JVMTI_VERSION_1_2, <<1, 3>>, <<9, 0>>, <<12, 0>>, <<21, 0>>, <<27, 0>>}

\* Mutant: every version number is taken as recognized.
version_recognized_always(version) == TRUE

\* JvmtiExport::get_jvmti_interface, the switch over the decoded version.
version_recognized(version) ==
  LET major == version[1]
      minor == version[2]
  IN  CASE major = 1 -> minor \in {0, 1, 2}
        [] major = 9 -> minor = 0
        [] major = 11 -> minor = 0
        [] OTHER -> ~(major < 13 \/ major > vm_major_version)

\* What a call of get_jvmti_interface gives back: the return code and what
\* became of the caller's *penv.
interface_result(version) ==
  IF ~version_recognized(version)
    THEN [rc |-> "JNI_EVERSION", penv |-> "unwritten"]
    ELSE IF phase \in {"LIVE", "ONLOAD"}
           THEN [rc |-> "JNI_OK", penv |-> "env"]
           ELSE [rc |-> "JNI_EDETACHED", penv |-> "null"]

\* Mutant: an environment is created in every phase.
get_jvmti_interface_in_any_phase(version, caps, callbacks) ==
  /\ Len(envs) < MaxEnvs
  /\ envs' = Append(envs, [caps |-> caps,
                           callbacks |-> callbacks,
                           enabled |-> {},
                           tenabled |-> [t \in Threads |-> {}]])
  /\ log' = <<>>
  /\ posted' = <<>>
  /\ lastOp' = Op("get_jvmti_interface", NoThread,
                  [version |-> version, rc |-> "JNI_OK", penv |-> "env"], TRUE)
  /\ UNCHANGED <<extVars, phase, threadVars, locVars, histVars, collVars>>

\* JvmtiExport::get_jvmti_interface: an unrecognized version is refused with
\* JNI_EVERSION before anything else; an environment is created and appended
\* only in the LIVE and ONLOAD phases; otherwise *penv is set to null and
\* JNI_EDETACHED is returned.
get_jvmti_interface(version, caps, callbacks) ==
  LET res == interface_result(version)
      created == res.rc = "JNI_OK"
  IN  /\ Len(envs) < MaxEnvs
      /\ IF created
           THEN envs' = Append(envs, [caps |-> caps,
                                      callbacks |-> callbacks,
                                      enabled |-> {},
                                      tenabled |-> [t \in Threads |-> {}]])
           ELSE envs' = envs
      /\ log' = <<>>
      /\ posted' = <<>>
      /\ lastOp' = Op("get_jvmti_interface", NoThread,
                      [version |-> version, rc |-> res.rc, penv |-> res.penv], created)
      /\ UNCHANGED <<extVars, phase, threadVars, locVars, histVars, collVars>>

\* JvmtiEventController::set_user_enabled for all threads (t = NoThread) or
\* for one thread: the subscription changes and the enablement bits follow at
\* once; every thread visible to the event system gets its event state.
set_event_enabled(e, k, t, on) ==
  /\ e \in 1..Len(envs)
  /\ phase # "DEAD"
  /\ t # NoThread => k \in ThreadFilteredKinds
  /\ envs' = [envs EXCEPT ![e] =
       IF t = NoThread
         THEN [@ EXCEPT !.enabled = IF on THEN @ \cup {k} ELSE @ \ {k}]
         ELSE [@ EXCEPT !.tenabled[t] = IF on THEN @ \cup {k} ELSE @ \ {k}]]
  /\ envs' # envs
  /\ has_state' = [u \in Threads |-> TRUE]
  /\ log' = <<>>
  /\ posted' = <<>>
  /\ lastOp' = Op("set_event_enabled", NoThread, 0, FALSE)
  /\ UNCHANGED <<extVars, phase, vthread_mounted, hide, locVars, histVars, collVars>>

\* thread->should_hide_jvmti_events() turns on or off (a JVMTI-originated
\* upcall or critical section begins or ends on the thread).
set_hide(t, on) ==
  /\ hide[t] # on
  /\ hide' = [hide EXCEPT ![t] = on]
  /\ log' = <<>>
  /\ posted' = <<>>
  /\ lastOp' = Op("set_hide", t, 0, FALSE)
  /\ UNCHANGED <<extVars, phase, regVars, has_state, vthread_mounted, locVars, histVars, collVars>>

-----------------------------------------------------------------------------
(* Per-thread event state *)

\* Mutant: the state is returned as it is and never created.
get_jvmti_thread_state_as_found(t) == has_state[t]

\* JvmtiExport::get_jvmti_thread_state: the state is created on the way only
\* for a thread with a mounted virtual thread.
get_jvmti_thread_state(t) == has_state[t] \/ vthread_mounted[t]

resolve_state(t) ==
  has_state' = [has_state EXCEPT ![t] = get_jvmti_thread_state(t)]

\* A virtual thread that has no event state yet is mounted on the carrier
\* thread t, outside any collector scope: thread->jvmti_thread_state() is
\* null from now on, until a state is created for the virtual thread.
mount_vthread(t) ==
  /\ scopes[t] = <<>>
  /\ frames[t] = <<>>
  /\ has_state[t]
  /\ vthread_mounted' = [vthread_mounted EXCEPT ![t] = TRUE]
  /\ has_state' = [has_state EXCEPT ![t] = FALSE]
  /\ cur_loc' = [cur_loc EXCEPT ![t] = [e \in EnvIds |-> 0]]
  /\ ss_posted' = [ss_posted EXCEPT ![t] = [e \in EnvIds |-> FALSE]]
  /\ bp_posted' = [bp_posted EXCEPT ![t] = [e \in EnvIds |-> FALSE]]
  /\ at' = [at EXCEPT ![t] = 0]
  /\ ss_count' = [ss_count EXCEPT ![t] = [e \in EnvIds |-> 0]]
  /\ bp_count' = [bp_count EXCEPT ![t] = [e \in EnvIds |-> 0]]
  /\ exc_state' = [exc_state EXCEPT ![t] = ES_CLEARED]
  /\ cur_stack_depth' = [cur_stack_depth EXCEPT ![t] = 0]
  /\ log' = <<>>
  /\ posted' = <<>>
  /\ lastOp' = Op("mount_vthread", t, 0, FALSE)
  /\ UNCHANGED <<callVars, fieldVars, sideVars, phase, regVars, hide, collVars>>

-----------------------------------------------------------------------------
(* Dispatch engine *)

\* Mutant: a pass calls every environment it selects, with or without a
\* callback entry.
Invoke_unchecked(sel, k, t, a) ==
  [i \in 1..Len(sel) |-> Callback(sel[i], k, t, a)]

\* The callbacks one pass over `sel' invokes: one per environment of `sel'
\* whose callback table has an entry for the event.
Invoke(sel, k, t, a) ==
  LET called == SelectSeq(sel, LAMBDA e : has_callback(e, k))
  IN  [i \in 1..Len(called) |-> Callback(called[i], k, t, a)]

\* JvmtiExport::post_class_load: the environments that get the event.
class_load_envs(t) ==
  SelectSeq(JvmtiEnvIterator,
            LAMBDA e : ets_is_enabled(t, e, ClassLoad) /\ env_phase(e) # "PRIMORDIAL")

post_class_load(t) ==
  /\ resolve_state(t)
  /\ log' = IF \/ PhaseRank(phase) < PhaseRank("PRIMORDIAL")
               \/ ~get_jvmti_thread_state(t)
               \/ hide[t]
              THEN <<>>
              ELSE Invoke(class_load_envs(t), ClassLoad, t, 0)
  /\ posted' = <<>>
  /\ lastOp' = Op("post_class_load", t, 0, ~has_state[t] /\ get_jvmti_thread_state(t))
  /\ UNCHANGED <<extVars, phase, regVars, vthread_mounted, hide, locVars, histVars, collVars>>

\* Mutant: one pass over all environments, whatever they can retransform.
post_all_envs_one_pass(load_kind) ==
  SelectSeq(JvmtiEnvIterator,
            LAMBDA e : /\ env_is_enabled(e, ClassFileLoadHook)
                       /\ (load_kind = "retransform" => is_retransformable(e)))

\* Mutant: the loop over the environments that cannot retransform runs for
\* every load kind.
post_all_envs_both_loops(load_kind) ==
  SelectSeq(JvmtiEnvIterator,
            LAMBDA e : ~is_retransformable(e) /\ env_is_enabled(e, ClassFileLoadHook))
    \o SelectSeq(JvmtiEnvIterator,
                 LAMBDA e : is_retransformable(e) /\ env_is_enabled(e, ClassFileLoadHook))

\* JvmtiClassFileLoadHookPoster::post_all_envs: the environments handed to
\* post_to_env, in order.  For load and redefine the non-retransformable
\* environments come first; the retransformable ones follow in every case.
post_all_envs(load_kind) ==
  LET first == IF load_kind # "retransform"
                 THEN SelectSeq(JvmtiEnvIterator,
                        LAMBDA e : ~is_retransformable(e)
                                   /\ env_is_enabled(e, ClassFileLoadHook))
                 ELSE <<>>
      second == SelectSeq(JvmtiEnvIterator,
                        LAMBDA e : is_retransformable(e)
                                   /\ env_is_enabled(e, ClassFileLoadHook))
  IN  first \o second

\* JvmtiClassFileLoadHookPoster::post_to_env returns at once for an
\* environment in the primordial phase without early class hook events.
post_to_env_passes(e) == ~(env_phase(e) = "PRIMORDIAL" /\ ~early_class_hook_env(e))

\* The bytes an agent's callback returns in new_data when it rewrites the class.
agent_bytes(e) == e

\* No callback returns new data.
NoNewData == [e \in EnvIds |-> FALSE]

\* The first loop of post_all_envs passes caching_needed = false to the
\* environments that cannot retransform, the second loop passes true to
\* those that can.
caching_needed(e) == is_retransformable(e)

\* Mutant: the original bytes are cached again whenever an agent that can
\* retransform returns new data.
cache_after_always(cache, e, curr_data) ==
  IF caching_needed(e) THEN <<curr_data>> ELSE cache

\* JvmtiClassFileLoadHookPoster::post_to_env, the cache after an environment
\* has returned new data for curr_data: a copy of curr_data is cached if
\* caching is needed and nothing is cached yet.
cache_after(cache, e, curr_data) ==
  IF caching_needed(e) /\ cache = <<>> THEN <<curr_data>> ELSE cache

\* Mutant: every callback is handed the caller's bytes.
bytes_passed_original(st) == OriginalBytes

\* The bytes post_to_env hands to the callback: _curr_data.
bytes_passed(st) == st.curr_data

\* No environment has returned bytes yet: _curr_env == nullptr.
NoEnv == 0

\* env->Deallocate(data): one call of an environment's deallocator.
Deallocate(e, data) == [env |-> e, data |-> data]

\* Mutant: the current bytes are never given back.
deallocate_curr_data_never(st, data_ptr) == st.freed

\* if (_curr_data != *_data_ptr) _curr_env->Deallocate(_curr_data): bytes
\* that are not the caller's are given back through the environment that
\* returned them.
deallocate_curr_data(st, data_ptr) ==
  IF st.curr_data # data_ptr
    THEN Append(st.freed, Deallocate(st.curr_env, st.curr_data))
    ELSE st.freed

\* JvmtiClassFileLoadHookPoster::post_to_env for environment e: the callback,
\* if there is one, gets the current bytes; new_data[e] says whether it
\* returns new data, which then becomes the current bytes, after the bytes of
\* a previous agent have been deallocated.
post_to_env(st, e, t, new_data) ==
  LET called == ClassFileLoadHook \in envs[e].callbacks
      returned == called /\ new_data[e]
  IN  [curr_data |-> IF returned THEN agent_bytes(e) ELSE st.curr_data,
       curr_env |-> IF returned THEN e ELSE st.curr_env,
       freed |-> IF returned THEN deallocate_curr_data(st, OriginalBytes) ELSE st.freed,
       cache |-> IF returned THEN cache_after(st.cache, e, st.curr_data) ELSE st.cache,
       has_been_modified |-> st.has_been_modified \/ returned,
       calls |-> st.calls \o Invoke(<<e>>, ClassFileLoadHook, t, bytes_passed(st))]

\* JvmtiClassFileLoadHookPoster::copy_modified_data: bytes of an agent are
\* copied to a new resource array for the caller and then deallocated; the
\* result is the caller's bytes and the deallocations of the whole post.
copy_modified_data(st, data_ptr) ==
  [data |-> IF st.curr_data # data_ptr THEN st.curr_data ELSE data_ptr,
   freed |-> deallocate_curr_data(st, data_ptr)]

\* The poster's state after post_to_env for the environments of sel, in order.
RECURSIVE post_envs(_, _, _, _)
post_envs(sel, st, t, new_data) ==
  IF sel = <<>>
    THEN st
    ELSE post_envs(Tail(sel), post_to_env(st, Head(sel), t, new_data), t, new_data)

\* JvmtiExport::post_class_file_load_hook with the poster's constructor,
\* post_all_envs and copy_modified_data: the load kind is read from the
\* thread state, and is load when the thread has none.  The caller hands in
\* the bytes of the class file and the class's cache of original bytes, and
\* gets back the last bytes returned, the cache, and whether any agent
\* returned new data.
post_class_file_load_hook(t, state_load_kind, new_data) ==
  LET dropped == PhaseRank(phase) < PhaseRank("PRIMORDIAL") \/ hide[t]
      load_kind == IF get_jvmti_thread_state(t) THEN state_load_kind ELSE "load"
      start == [curr_data |-> OriginalBytes, curr_env |-> NoEnv, freed |-> <<>>,
                cache |-> cached_class_file,
                has_been_modified |-> FALSE, calls |-> <<>>]
      end == IF dropped
               THEN start
               ELSE post_envs(SelectSeq(post_all_envs(load_kind),
                                        LAMBDA e : post_to_env_passes(e)),
                              start, t, new_data)
      copied == copy_modified_data(end, OriginalBytes)
  IN  /\ IF dropped THEN UNCHANGED has_state ELSE resolve_state(t)
      /\ log' = end.calls
      /\ class_data' = copied.data
      /\ cached_class_file' = end.cache
      /\ posted' = <<>>
      /\ lastOp' = Op("post_class_file_load_hook", t,
                      [load_kind |-> load_kind, new_data |-> new_data,
                       deallocated |-> copied.freed],
                      end.has_been_modified)
      /\ UNCHANGED <<excVars, callVars, fieldVars, lateVars, modVars, startVars, lockVars, phase, regVars,
                     vthread_mounted, hide, locVars, histVars, collVars>>

-----------------------------------------------------------------------------
(* Location events: single step and breakpoint *)

\* JvmtiEnvThreadState::compare_and_set_current_location: the marker of the
\* environment-thread pair moves to the new location; its posted flags are
\* kept while the location is the same and cleared when it changes.
same_location(t, e, loc) == cur_loc[t][e] = loc

ss_posted_after_compare(t, e, loc) == same_location(t, e, loc) /\ ss_posted[t][e]

bp_posted_after_compare(t, e, loc) == same_location(t, e, loc) /\ bp_posted[t][e]

\* Mutant: the step is posted whether or not it was posted at this location.
single_step_due_always(t, e, loc) == ets_is_enabled(t, e, SingleStep)

\* JvmtiExport::post_single_step, the test inside the loop.
single_step_due(t, e, loc) ==
  ~ss_posted_after_compare(t, e, loc) /\ ets_is_enabled(t, e, SingleStep)

\* Mutant: the breakpoint is posted whether or not it was posted at this
\* location.
breakpoint_due_always(t, e, loc) == ets_is_enabled(t, e, Breakpoint)

\* JvmtiExport::post_raw_breakpoint, the test inside the loop.
breakpoint_due(t, e, loc) ==
  ~bp_posted_after_compare(t, e, loc) /\ ets_is_enabled(t, e, Breakpoint)

\* The history of a location event on t at loc that reached the loop: when
\* the observed location changes the counts start again; kind k's count of
\* each environment called grows (2 stands for "more than once").
observe(t, loc, k, called) ==
  LET moved == at[t] # loc
      base(c, e) == IF moved THEN 0 ELSE c[t][e]
      bump(c, e) == IF e \in called /\ base(c, e) < 2 THEN base(c, e) + 1 ELSE base(c, e)
  IN  /\ at' = [at EXCEPT ![t] = loc]
      /\ ss_count' = [ss_count EXCEPT ![t] =
            [e \in EnvIds |-> IF k = SingleStep THEN bump(ss_count, e) ELSE base(ss_count, e)]]
      /\ bp_count' = [bp_count EXCEPT ![t] =
            [e \in EnvIds |-> IF k = Breakpoint THEN bump(bp_count, e) ELSE base(bp_count, e)]]

post_single_step(t, loc, mount_transition) ==
  LET returns == ~get_jvmti_thread_state(t) \/ mount_transition \/ hide[t]
      due == SelectSeq(JvmtiEnvIterator, LAMBDA e : single_step_due(t, e, loc))
      isdue(e) == e \in 1..Len(envs) /\ single_step_due(t, e, loc)
  IN  /\ resolve_state(t)
      /\ IF returns
           THEN /\ log' = <<>>
                /\ UNCHANGED <<locVars, histVars>>
           ELSE /\ log' = Invoke(due, SingleStep, t, loc)
                /\ cur_loc' = [cur_loc EXCEPT ![t] =
                      [e \in EnvIds |-> IF e \in 1..Len(envs) THEN loc ELSE @[e]]]
                /\ ss_posted' = [ss_posted EXCEPT ![t] =
                      [e \in EnvIds |-> IF e \in 1..Len(envs)
                                          THEN isdue(e) \/ ss_posted_after_compare(t, e, loc)
                                          ELSE @[e]]]
                /\ bp_posted' = [bp_posted EXCEPT ![t] =
                      [e \in EnvIds |-> IF e \in 1..Len(envs)
                                          THEN bp_posted_after_compare(t, e, loc)
                                          ELSE @[e]]]
                /\ observe(t, loc, SingleStep,
                           {e \in 1..Len(envs) : isdue(e) /\ has_callback(e, SingleStep)})
      /\ posted' = <<>>
      /\ lastOp' = Op("post_single_step", t, loc, ~returns)
      /\ UNCHANGED <<extVars, phase, regVars, vthread_mounted, hide, collVars>>

post_raw_breakpoint(t, loc) ==
  LET returns == ~get_jvmti_thread_state(t) \/ hide[t]
      due == SelectSeq(JvmtiEnvIterator, LAMBDA e : breakpoint_due(t, e, loc))
      isdue(e) == e \in 1..Len(envs) /\ breakpoint_due(t, e, loc)
  IN  /\ resolve_state(t)
      /\ IF returns
           THEN /\ log' = <<>>
                /\ UNCHANGED <<locVars, histVars>>
           ELSE /\ log' = Invoke(due, Breakpoint, t, loc)
                /\ cur_loc' = [cur_loc EXCEPT ![t] =
                      [e \in EnvIds |-> IF e \in 1..Len(envs) THEN loc ELSE @[e]]]
                /\ bp_posted' = [bp_posted EXCEPT ![t] =
                      [e \in EnvIds |-> IF e \in 1..Len(envs)
                                          THEN isdue(e) \/ bp_posted_after_compare(t, e, loc)
                                          ELSE @[e]]]
                /\ ss_posted' = [ss_posted EXCEPT ![t] =
                      [e \in EnvIds |-> IF e \in 1..Len(envs)
                                          THEN ss_posted_after_compare(t, e, loc)
                                          ELSE @[e]]]
                /\ observe(t, loc, Breakpoint,
                           {e \in 1..Len(envs) : isdue(e) /\ has_callback(e, Breakpoint)})
      /\ posted' = <<>>
      /\ lastOp' = Op("post_raw_breakpoint", t, loc, ~returns)
      /\ UNCHANGED <<extVars, phase, regVars, vthread_mounted, hide, collVars>>

-----------------------------------------------------------------------------
(* Global events and VM death *)

\* Mutant: the environments subscribed to the event, whatever was recomputed.
global_event_envs_subscribed(k) ==
  SelectSeq(JvmtiEnvIterator, LAMBDA e : k \in envs[e].enabled)

\* The loop of a post of an event that is not filtered by thread: every
\* environment that has the event's bit set.
global_event_envs(k) ==
  SelectSeq(JvmtiEnvIterator, LAMBDA e : env_is_enabled(e, k))

\* JvmtiExport::post_garbage_collection_start
post_garbage_collection_start ==
  /\ log' = Invoke(global_event_envs(GarbageCollectionStart),
                   GarbageCollectionStart, NoThread, 0)
  /\ posted' = <<>>
  /\ lastOp' = Op("post_garbage_collection_start", NoThread, 0, FALSE)
  /\ UNCHANGED <<extVars, phase, regVars, threadVars, locVars, histVars, collVars>>

\* Mutant: VM death empties the queue of deferred events.
post_vm_death_flushing ==
  /\ log' = <<>>
  /\ phase' = "DEAD"
  /\ posted' = <<>>
  /\ deferred' = <<>>
  /\ lastOp' = Op("post_vm_death", NoThread, 0, FALSE)
  /\ UNCHANGED <<extVars, regVars, threadVars, locVars, histVars, slot, scopes>>

\* JvmtiExport::post_vm_death: the VMDeath callbacks, then the advance to
\* DEAD, then JvmtiEventController::vm_death, whose recomputation is the
\* phase test of env_is_enabled and ets_is_enabled.
post_vm_death ==
  /\ log' = Invoke(global_event_envs(VMDeath), VMDeath, NoThread, 0)
  /\ set_phase("DEAD")
  /\ posted' = <<>>
  /\ lastOp' = Op("post_vm_death", NoThread, 0, FALSE)
  /\ UNCHANGED <<extVars, regVars, threadVars, locVars, histVars, collVars>>

-----------------------------------------------------------------------------
(* Event collectors *)

NoJvmtiVMObjectAllocMark == "NoJvmtiVMObjectAllocMark"

\* The objects and stubs the runtime reports.
Objects == {1, 2}

\* No flush in progress.  In a flush, id is the flushing collector's place in
\* scopes[t], i the next record of its buffer and called whether a callback
\* of this flush has been invoked.
NoFlush == [id |-> 0, i |-> 1, called |-> FALSE]

\* The modules of the classes that are redefined; the unnamed module is the
\* one for which ModuleEntry::is_named() is false.
Modules == {"m1", "m2", "unnamed"}

\* A thread outside the poster's constructor.
PosterIdle == [pc |-> "idle", module |-> "unnamed"]

\* The oop that a released or never-set handle resolves to.
NullObject == 0

EventOf(ck) ==
  CASE ck = "vm_object_alloc" -> VMObjectAlloc
    [] ck = "sampled_object_alloc" -> SampledObjectAlloc
    [] ck = "dynamic_code" -> DynamicCodeGenerated

Post(k, obj) == [kind |-> k, obj |-> obj]

RECURSIVE Flatten(_)
Flatten(ss) == IF ss = <<>> THEN <<>> ELSE Head(ss) \o Flatten(Tail(ss))

\* The records buffered by the collectors alive on t.
RECURSIVE Buffered(_)
Buffered(stack) ==
  IF stack = <<>> THEN 0 ELSE Len(Head(stack).buf) + Buffered(Tail(stack))

\* Room for one more record: the buffers of a thread and the deferred queue
\* hold at most MaxBuf records together.
Room(t) == Buffered(scopes[t]) + Len(deferred) < MaxBuf

\* The slot's occupant is accumulating: a dynamic code collector whenever it
\* is installed, an object allocation collector while it is enabled.
accumulating(t, ck) ==
  /\ slot[t][ck] # 0
  /\ ck # "dynamic_code" => scopes[t][slot[t][ck]].enable

\* Mutant: a collector is set up whether or not its event is enabled.
collector_wanted_always(ck, safe) == TRUE

\* The constructors' test: JvmtiExport::should_post_dynamic_code_generated,
\* should_post_vm_object_alloc, and in JvmtiSampledObjectAllocEventCollector
\* ::start should_post_sampled_object_alloc and object_alloc_is_safe_to_sample.
collector_wanted(ck, safe) ==
  should_post(EventOf(ck)) /\ (ck = "sampled_object_alloc" => safe)

\* Mutant: a collector installs itself over any occupant.
setup_installs_always(t, ck) == TRUE

\* JvmtiEventCollector::setup_jvmti_thread_state: whether the collector makes
\* itself the thread's current collector.
setup_installs(t, ck) ==
  LET prev == slot[t][ck]
  IN  CASE ck = "vm_object_alloc" -> ~(prev # 0 /\ ~scopes[t][prev].enable)
        [] ck = "dynamic_code" -> TRUE
        [] ck = "sampled_object_alloc" -> prev = 0

\* The _prev the collector keeps: the sampled collector assigns none.
setup_prev(t, ck) == IF ck = "sampled_object_alloc" THEN 0 ELSE slot[t][ck]

\* A collector's constructor.  The fields before, born_enabled and outer are
\* history: the slot's occupant when the collector was created, whether its
\* event was globally enabled then, and the occupant if it was accumulating.
create_collector(t, ck, safe) ==
  LET wanted == collector_wanted(ck, safe)
      installs == wanted /\ setup_installs(t, ck)
      c == [kind |-> ck,
            enable |-> wanted /\ ck # "dynamic_code",
            unset |-> installs,
            prev |-> IF installs THEN setup_prev(t, ck) ELSE 0,
            buf |-> <<>>,
            collector |-> 0,
            before |-> slot[t][ck],
            born_enabled |-> should_post(EventOf(ck)),
            outer |-> IF accumulating(t, ck) THEN slot[t][ck] ELSE 0]
  IN  /\ Len(scopes[t]) < MaxDepth
      /\ scopes' = [scopes EXCEPT ![t] = Append(@, c)]
      /\ slot' = IF installs THEN [slot EXCEPT ![t][ck] = Len(scopes[t]) + 1] ELSE slot
      /\ has_state' = IF wanted THEN [has_state EXCEPT ![t] = TRUE] ELSE has_state
      /\ log' = <<>>
      /\ posted' = <<>>
      /\ lastOp' = Op("create_collector", t, ck, installs)
      /\ UNCHANGED <<extVars, phase, regVars, vthread_mounted, hide, locVars, histVars, deferred>>

\* Mutant: the slot is emptied instead of restored.
unset_clears_slot(t, id) ==
  LET c == scopes[t][id]
  IN  IF c.unset /\ has_state[t] /\ slot[t][c.kind] = id
        THEN [slot EXCEPT ![t][c.kind] = 0]
        ELSE slot

\* JvmtiEventCollector::unset_jvmti_thread_state: the slots after it.
unset_jvmti_thread_state(t, id) ==
  LET c == scopes[t][id]
  IN  IF c.unset /\ has_state[t] /\ slot[t][c.kind] = id
        THEN [slot EXCEPT ![t][c.kind] = c.prev]
        ELSE slot

\* Mutant: the buffer is posted newest first.
generate_call_newest_first(c) ==
  [i \in 1..Len(c.buf) |-> Post(EventOf(c.kind), c.buf[Len(c.buf) + 1 - i])]

\* JvmtiObjectAllocEventCollector::generate_call_for_allocated: one call of
\* the post callback per buffered object, oldest first.
generate_call_for_allocated(c) ==
  [i \in 1..Len(c.buf) |-> Post(EventOf(c.kind), c.buf[i])]

\* The posts of a collector's destructor: the object allocation collectors
\* flush only if _enable is set; the dynamic code collector posts every blob.
destructor_posts(c) ==
  IF c.kind = "dynamic_code" \/ c.enable THEN generate_call_for_allocated(c) ELSE <<>>

\* Mutant: a record whose object is null is posted like any other.
vm_object_alloc_calls_of_null(t, obj) ==
  IF hide[t]
    THEN <<>>
    ELSE Invoke(global_event_envs(VMObjectAlloc), VMObjectAlloc, t, obj)

\* JvmtiExport::post_vm_object_alloc: the callbacks of one post.
vm_object_alloc_calls(t, obj) ==
  IF obj = NullObject \/ hide[t]
    THEN <<>>
    ELSE Invoke(global_event_envs(VMObjectAlloc), VMObjectAlloc, t, obj)

\* JvmtiExport::post_sampled_object_alloc: the callbacks of one post.
sampled_object_alloc_calls(t, obj) ==
  IF ~get_jvmti_thread_state(t) \/ obj = NullObject \/ hide[t]
    THEN <<>>
    ELSE Invoke(SelectSeq(JvmtiEnvIterator,
                          LAMBDA e : ets_is_enabled(t, e, SampledObjectAlloc)),
                SampledObjectAlloc, t, obj)

\* JvmtiExport::post_dynamic_code_generated_internal: the callbacks of one post.
dynamic_code_calls(obj) ==
  Invoke(global_event_envs(DynamicCodeGenerated), DynamicCodeGenerated, NoThread, obj)

\* Mutant: dynamic code is deferred in every phase.
dynamic_code_never_posts_directly == FALSE

\* JvmtiExport::post_dynamic_code_generated posts at once in the PRIMORDIAL
\* and START phases and defers to the service thread in every other phase.
dynamic_code_posts_directly == phase \in {"PRIMORDIAL", "START"}

\* The callbacks that the destructor's posts invoke before it returns.
post_calls(t, p) ==
  CASE p.kind = VMObjectAlloc -> vm_object_alloc_calls(t, p.obj)
    [] p.kind = SampledObjectAlloc -> sampled_object_alloc_calls(t, p.obj)
    [] p.kind = DynamicCodeGenerated ->
         IF dynamic_code_posts_directly THEN dynamic_code_calls(p.obj) ELSE <<>>

\* JvmtiExport::post_vm_object_alloc
post_vm_object_alloc(t, obj) ==
  /\ posted' = <<Post(VMObjectAlloc, obj)>>
  /\ log' = vm_object_alloc_calls(t, obj)
  /\ lastOp' = Op("post_vm_object_alloc", t, 0, FALSE)
  /\ UNCHANGED <<extVars, phase, regVars, threadVars, locVars, histVars, collVars>>

\* JvmtiExport::post_sampled_object_alloc
post_sampled_object_alloc(t, obj) ==
  /\ resolve_state(t)
  /\ posted' = <<Post(SampledObjectAlloc, obj)>>
  /\ log' = sampled_object_alloc_calls(t, obj)
  /\ lastOp' = Op("post_sampled_object_alloc", t, 0, FALSE)
  /\ UNCHANGED <<extVars, phase, regVars, vthread_mounted, hide, locVars, histVars, collVars>>

\* Mutant: the new record is put in front of the records waiting.
enqueue_deferred_event_at_head(q, r) == <<r>> \o q

\* ServiceThread::enqueue_deferred_event: the record joins the queue behind
\* the records waiting.
enqueue_deferred_event(q, r) == Append(q, r)

\* JvmtiExport::post_dynamic_code_generated
post_dynamic_code_generated(obj) ==
  /\ dynamic_code_posts_directly \/ Len(deferred) < MaxBuf
  /\ posted' = <<Post(DynamicCodeGenerated, obj)>>
  /\ log' = IF dynamic_code_posts_directly THEN dynamic_code_calls(obj) ELSE <<>>
  /\ deferred' = IF dynamic_code_posts_directly
                   THEN deferred
                   ELSE enqueue_deferred_event(deferred, Post(DynamicCodeGenerated, obj))
  /\ lastOp' = Op("post_dynamic_code_generated", NoThread, 0, dynamic_code_posts_directly)
  /\ UNCHANGED <<extVars, phase, regVars, threadVars, locVars, histVars, slot, scopes>>

\* JavaThread::owns_locks, for the one VM lock of the model.
owns_locks(t) == lock_owner = t

\* A collector's destructor: flush, then unset.  The sampled collector that
\* never set _enable returns before both; the dynamic code collector asserts
\* that the thread owns no locks.
destroy_collector(t) ==
  /\ scopes[t] # <<>>
  /\ flush[t].id # Len(scopes[t])
  /\ LET id == Len(scopes[t])
         c == scopes[t][id]
         posts == IF c.kind \in CollectorKinds THEN destructor_posts(c) ELSE <<>>
     IN  /\ c.kind \in CollectorKinds
         /\ c.kind = "dynamic_code" => ~owns_locks(t)
         /\ posted' = posts
         /\ log' = Flatten([i \in 1..Len(posts) |-> post_calls(t, posts[i])])
         /\ deferred' = IF c.kind = "dynamic_code" /\ ~dynamic_code_posts_directly
                          THEN deferred \o posts
                          ELSE deferred
         /\ slot' = IF c.kind = "sampled_object_alloc" /\ ~c.enable
                      THEN slot
                      ELSE unset_jvmti_thread_state(t, id)
         /\ scopes' = [scopes EXCEPT ![t] = SubSeq(@, 1, id - 1)]
         /\ lastOp' = Op("destroy_collector", t, c.kind, c.unset)
  /\ UNCHANGED <<extVars, phase, regVars, threadVars, locVars, histVars>>

\* JvmtiObjectAllocEventCollector::record_allocation
record_allocation(buf, obj) == Append(buf, obj)

\* Mutant: an allocation that no collector takes is posted at once.
unrecorded_posts_directly(k, obj) == <<Post(k, obj)>>

\* The record functions have no branch for an allocation that is not handed
\* to a collector: it is posted nowhere.
unrecorded_posts(k, obj) == <<>>

\* JvmtiExport::record_vm_internal_object_allocation: the object goes to the
\* thread's current collector if there is one and it is enabled, unless the
\* object is a java.lang.Class; nothing else happens.
record_vm_internal_object_allocation(t, obj, is_class) ==
  LET c == slot[t]["vm_object_alloc"]
      records == has_state[t] /\ c # 0 /\ scopes[t][c].enable /\ ~is_class
      posts == IF records THEN <<>> ELSE unrecorded_posts(VMObjectAlloc, obj)
  IN  /\ records => Room(t)
      /\ scopes' = IF records
                     THEN [scopes EXCEPT ![t][c].buf = record_allocation(@, obj)]
                     ELSE scopes
      /\ posted' = posts
      /\ log' = Flatten([i \in 1..Len(posts) |-> post_calls(t, posts[i])])
      /\ lastOp' = Op("record_vm_internal_object_allocation", t,
                      IF is_class THEN 1 ELSE 0, records)
      /\ UNCHANGED <<extVars, phase, regVars, threadVars, locVars, histVars, slot, deferred>>

\* JvmtiExport::record_sampled_internal_object_allocation
record_sampled_internal_object_allocation(t, obj) ==
  LET c == slot[t]["sampled_object_alloc"]
      records == has_state[t] /\ c # 0 /\ scopes[t][c].enable
      posts == IF records THEN <<>> ELSE unrecorded_posts(SampledObjectAlloc, obj)
  IN  /\ records => Room(t)
      /\ scopes' = IF records
                     THEN [scopes EXCEPT ![t][c].buf = record_allocation(@, obj)]
                     ELSE scopes
      /\ posted' = posts
      /\ log' = Flatten([i \in 1..Len(posts) |-> post_calls(t, posts[i])])
      /\ lastOp' = Op("record_sampled_internal_object_allocation", t, 0, records)
      /\ UNCHANGED <<extVars, phase, regVars, threadVars, locVars, histVars, slot, deferred>>

\* Mutant: the stub is handed to the service thread at once.
post_dynamic_code_generated_while_holding_locks_deferring(t, obj) ==
  /\ Room(t)
  /\ resolve_state(t)
  /\ deferred' = enqueue_deferred_event(deferred, Post(DynamicCodeGenerated, obj))
  /\ log' = <<>>
  /\ posted' = <<Post(DynamicCodeGenerated, obj)>>
  /\ lastOp' = Op("post_dynamic_code_generated_while_holding_locks", t, 0, FALSE)
  /\ UNCHANGED <<extVars, phase, regVars, vthread_mounted, hide, locVars, histVars, slot, scopes>>

\* JvmtiExport::post_dynamic_code_generated_while_holding_locks with
\* JvmtiDynamicCodeEventCollector::register_stub.
post_dynamic_code_generated_while_holding_locks(t, obj) ==
  LET c == slot[t]["dynamic_code"]
      records == get_jvmti_thread_state(t) /\ c # 0
  IN  /\ records => Room(t)
      /\ resolve_state(t)
      /\ scopes' = IF records
                     THEN [scopes EXCEPT ![t][c].buf = Append(@, obj)]
                     ELSE scopes
      /\ log' = <<>>
      /\ posted' = <<>>
      /\ lastOp' = Op("post_dynamic_code_generated_while_holding_locks", t, 0, records)
      /\ UNCHANGED <<extVars, phase, regVars, vthread_mounted, hide, locVars, histVars, slot, deferred>>

\* NoJvmtiVMObjectAllocMark's constructor: the thread's current collector is
\* disabled if it is enabled, and remembered.  The fields before and
\* born_enabled are history: the slot's occupant when the mark was created
\* and its enabled flag then.  A thread's stack holds fewer than depth scopes.
create_mark_within(t, depth) ==
  LET c == slot[t]["vm_object_alloc"]
      found == has_state[t] /\ c # 0
      disables == /\ should_post(VMObjectAlloc)
                  /\ has_state[t]
                  /\ c # 0
                  /\ scopes[t][c].enable
      m == [kind |-> NoJvmtiVMObjectAllocMark,
            enable |-> FALSE,
            unset |-> FALSE,
            prev |-> 0,
            buf |-> <<>>,
            collector |-> IF disables THEN c ELSE 0,
            before |-> IF found THEN c ELSE 0,
            born_enabled |-> found /\ scopes[t][c].enable,
            outer |-> 0]
  IN  /\ Len(scopes[t]) < depth
      /\ scopes' = [scopes EXCEPT ![t] =
           Append(IF disables THEN [@ EXCEPT ![c].enable = FALSE] ELSE @, m)]
      /\ log' = <<>>
      /\ posted' = <<>>
      /\ lastOp' = Op("create_mark", t, 0, disables)
      /\ UNCHANGED <<extVars, phase, regVars, threadVars, locVars, histVars, slot, deferred>>

create_mark(t) == create_mark_within(t, MaxDepth)

\* Mutant: the destructor enables the thread's current collector, whether or
\* not the mark had disabled it.
destroy_mark_enabling(t) ==
  /\ scopes[t] # <<>>
  /\ LET id == Len(scopes[t])
         m == scopes[t][id]
         rest == SubSeq(scopes[t], 1, id - 1)
     IN  /\ m.kind = NoJvmtiVMObjectAllocMark
         /\ scopes' = [scopes EXCEPT ![t] =
              IF m.before # 0 THEN [rest EXCEPT ![m.before].enable = TRUE] ELSE rest]
         /\ lastOp' = Op("destroy_mark", t, 0, m.collector # 0)
  /\ log' = <<>>
  /\ posted' = <<>>
  /\ UNCHANGED <<extVars, phase, regVars, threadVars, locVars, histVars, slot, deferred>>

\* NoJvmtiVMObjectAllocMark's destructor: the remembered collector is enabled.
destroy_mark(t) ==
  /\ scopes[t] # <<>>
  /\ LET id == Len(scopes[t])
         m == scopes[t][id]
         rest == SubSeq(scopes[t], 1, id - 1)
     IN  /\ m.kind = NoJvmtiVMObjectAllocMark
         /\ scopes' = [scopes EXCEPT ![t] =
              IF m.collector # 0 THEN [rest EXCEPT ![m.collector].enable = TRUE] ELSE rest]
         /\ lastOp' = Op("destroy_mark", t, 0, m.collector # 0)
  /\ log' = <<>>
  /\ posted' = <<>>
  /\ UNCHANGED <<extVars, phase, regVars, threadVars, locVars, histVars, slot, deferred>>

\* Mutant: the flush leaves the collector enabled.
flush_begin_enabled(t) ==
  /\ flush[t].id = 0
  /\ scopes[t] # <<>>
  /\ LET id == Len(scopes[t])
         c == scopes[t][id]
     IN  /\ c.kind \in {"vm_object_alloc", "sampled_object_alloc"}
         /\ c.enable
         /\ c.buf # <<>>
         /\ flush' = [flush EXCEPT ![t] = [id |-> id, i |-> 1, called |-> FALSE]]
         /\ lastOp' = Op("flush_begin", t, id, TRUE)
  /\ log' = <<>>
  /\ posted' = <<>>
  /\ UNCHANGED <<excVars, callVars, fieldVars, modVars, startVars, hookVars, lockVars,
                 deathVars, popVars, edgeVars, phase, regVars, threadVars, locVars, histVars,
                 collVars>>

\* The destructor of an object allocation collector that is enabled and has
\* records, up to the loop of generate_call_for_allocated: set_enabled(false).
\* The three steps of a flush do what destroy_collector does in one; between
\* them the callbacks that the posts invoke run on the thread.
flush_begin(t) ==
  /\ flush[t].id = 0
  /\ scopes[t] # <<>>
  /\ LET id == Len(scopes[t])
         c == scopes[t][id]
     IN  /\ c.kind \in {"vm_object_alloc", "sampled_object_alloc"}
         /\ c.enable
         /\ c.buf # <<>>
         /\ scopes' = [scopes EXCEPT ![t][id].enable = FALSE]
         /\ flush' = [flush EXCEPT ![t] = [id |-> id, i |-> 1, called |-> FALSE]]
         /\ lastOp' = Op("flush_begin", t, id, TRUE)
  /\ log' = <<>>
  /\ posted' = <<>>
  /\ UNCHANGED <<excVars, callVars, fieldVars, modVars, startVars, hookVars, lockVars,
                 deathVars, popVars, edgeVars, phase, regVars, threadVars, locVars, histVars,
                 slot, deferred>>

\* One round of the loop of generate_call_for_allocated: the post callback is
\* called for the next record, once the callbacks of the record before have
\* returned.
flush_post(t) ==
  LET f == flush[t]
      c == scopes[t][f.id]
      p == Post(EventOf(c.kind), c.buf[f.i])
      calls == post_calls(t, p)
  IN  /\ f.id # 0
      /\ Len(scopes[t]) = f.id
      /\ f.i <= Len(c.buf)
      /\ posted' = <<p>>
      /\ log' = calls
      /\ flush' = [flush EXCEPT ![t] =
                     [id |-> f.id, i |-> f.i + 1, called |-> f.called \/ calls # <<>>]]
      /\ lastOp' = Op("flush_post", t, f.id, calls # <<>>)
      /\ UNCHANGED <<excVars, callVars, fieldVars, modVars, startVars, hookVars, lockVars,
                     deathVars, popVars, edgeVars, phase, regVars, threadVars, locVars,
                     histVars, collVars>>

\* The end of the destructor: the records are deleted, the slot is given back
\* by unset_jvmti_thread_state and the collector leaves the stack.
flush_end(t) ==
  LET f == flush[t]
      c == scopes[t][f.id]
  IN  /\ f.id # 0
      /\ Len(scopes[t]) = f.id
      /\ f.i > Len(c.buf)
      /\ slot' = unset_jvmti_thread_state(t, f.id)
      /\ scopes' = [scopes EXCEPT ![t] = SubSeq(@, 1, f.id - 1)]
      /\ flush' = [flush EXCEPT ![t] = NoFlush]
      /\ posted' = <<>>
      /\ log' = <<>>
      /\ lastOp' = Op("flush_end", t, f.id, c.unset)
      /\ UNCHANGED <<excVars, callVars, fieldVars, modVars, startVars, hookVars, lockVars,
                     deathVars, popVars, edgeVars, phase, regVars, threadVars, locVars,
                     histVars, deferred>>

\* JvmtiExport::post_class_unload: the event is deferred to the service
\* thread in every phase from PRIMORDIAL on, and dropped before.
post_class_unload(obj) ==
  LET dropped == PhaseRank(phase) < PhaseRank("PRIMORDIAL")
  IN  /\ Len(deferred) < MaxBuf
      /\ posted' = <<Post(ClassUnload, obj)>>
      /\ log' = <<>>
      /\ deferred' = IF dropped
                       THEN deferred
                       ELSE enqueue_deferred_event(deferred, Post(ClassUnload, obj))
      /\ lastOp' = Op("post_class_unload", NoThread, 0, FALSE)
      /\ UNCHANGED <<extVars, phase, regVars, threadVars, locVars, histVars, slot, scopes>>

\* JvmtiExport::post_class_unload_internal: the callbacks of one post, made
\* on the service thread.
class_unload_calls(obj) ==
  IF PhaseRank(phase) < PhaseRank("PRIMORDIAL") \/ ~should_post(ClassUnload)
    THEN <<>>
    ELSE Invoke(SelectSeq(JvmtiEnvIterator,
                          LAMBDA e : env_phase(e) # "PRIMORDIAL"
                                     /\ env_is_enabled(e, ClassUnload)),
                ClassUnload, NoThread, obj)

\* JvmtiDeferredEvent::post: the internal post of the record's kind.
deferred_event_calls(r) ==
  IF r.kind = ClassUnload THEN class_unload_calls(r.obj) ELSE dynamic_code_calls(r.obj)

\* The service thread takes the oldest deferred event and posts it.
service_thread_post ==
  /\ deferred # <<>>
  /\ deferred' = Tail(deferred)
  /\ posted' = <<Head(deferred)>>
  /\ log' = deferred_event_calls(Head(deferred))
  /\ lastOp' = Op("service_thread_post", NoThread, 0, FALSE)
  /\ UNCHANGED <<extVars, phase, regVars, threadVars, locVars, histVars, slot, scopes>>

-----------------------------------------------------------------------------
(* Thread start, method entry and exceptions *)

\* JvmtiEventController::thread_started: the thread becomes visible to the
\* event system and gets its event state.
thread_started(t) == has_state' = [has_state EXCEPT ![t] = TRUE]

\* JvmtiExport::post_thread_start, for a thread that is not a bound virtual
\* thread and is not hidden from external view.
post_thread_start(t) ==
  LET dropped == PhaseRank(phase) < PhaseRank("PRIMORDIAL")
  IN  /\ IF dropped THEN UNCHANGED has_state ELSE thread_started(t)
      /\ log' = IF dropped \/ ~should_post(ThreadStart)
                  THEN <<>>
                  ELSE Invoke(SelectSeq(JvmtiEnvIterator,
                                        LAMBDA e : env_phase(e) # "PRIMORDIAL"
                                                   /\ env_is_enabled(e, ThreadStart)),
                              ThreadStart, t, 0)
      /\ posted' = <<>>
      /\ lastOp' = Op("post_thread_start", t, 0, FALSE)
      /\ UNCHANGED <<extVars, phase, regVars, vthread_mounted, hide, locVars, histVars,
                     collVars>>

\* JvmtiThreadState::is_interp_only_mode: on while an event that needs the
\* interpreter is enabled for the thread.
is_interp_only_mode(t) ==
  state_is_enabled(t, SingleStep) \/ state_is_enabled(t, MethodEntry)

\* JvmtiThreadState::incr_cur_stack_depth: an invalid depth stays invalid.
incr_cur_stack_depth(d) == IF d = UNKNOWN_STACK_DEPTH THEN d ELSE d + 1

\* JvmtiExport::post_method_entry
post_method_entry(t, mount_transition) ==
  LET returns == \/ ~get_jvmti_thread_state(t)
                 \/ ~is_interp_only_mode(t)
                 \/ mount_transition
                 \/ hide[t]
  IN  /\ ~returns => cur_stack_depth[t] < MaxStack
      /\ resolve_state(t)
      /\ cur_stack_depth' = IF returns
                              THEN cur_stack_depth
                              ELSE [cur_stack_depth EXCEPT ![t] = incr_cur_stack_depth(@)]
      /\ log' = IF returns \/ ~state_is_enabled(t, MethodEntry)
                  THEN <<>>
                  ELSE Invoke(SelectSeq(JvmtiEnvIterator,
                                        LAMBDA e : ets_is_enabled(t, e, MethodEntry)),
                              MethodEntry, t, 0)
      /\ posted' = <<>>
      /\ lastOp' = Op("post_method_entry", t, 0, ~returns)
      /\ UNCHANGED <<exc_state, callVars, fieldVars, sideVars, phase, regVars, vthread_mounted, hide,
                     locVars, histVars, collVars>>

\* Mutant: an exception is noted in the thread state only if some
\* environment has the Exception event enabled for the thread.
post_exception_throw_if_enabled(t) ==
  LET returns == ~get_jvmti_thread_state(t) \/ hide[t] \/ ~state_is_enabled(t, Exception)
  IN  /\ resolve_state(t)
      /\ exc_state' = IF returns THEN exc_state ELSE [exc_state EXCEPT ![t] = ES_DETECTED]
      /\ cur_stack_depth' = IF returns
                              THEN cur_stack_depth
                              ELSE [cur_stack_depth EXCEPT ![t] = UNKNOWN_STACK_DEPTH]
      /\ log' = IF returns \/ exc_state[t] = ES_DETECTED
                  THEN <<>>
                  ELSE Invoke(SelectSeq(JvmtiEnvIterator,
                                        LAMBDA e : ets_is_enabled(t, e, Exception)),
                              Exception, t, 0)
      /\ posted' = <<>>
      /\ lastOp' = Op("post_exception_throw", t, 0, ~returns)
      /\ UNCHANGED <<callVars, fieldVars, sideVars, phase, regVars, vthread_mounted, hide,
                     locVars, histVars, collVars>>

\* Mutant: the exception is reported whether or not it was detected before.
post_exception_throw_again(t) ==
  LET returns == ~get_jvmti_thread_state(t) \/ hide[t]
  IN  /\ resolve_state(t)
      /\ exc_state' = IF returns THEN exc_state ELSE [exc_state EXCEPT ![t] = ES_DETECTED]
      /\ cur_stack_depth' = IF returns
                              THEN cur_stack_depth
                              ELSE [cur_stack_depth EXCEPT ![t] = UNKNOWN_STACK_DEPTH]
      /\ log' = IF returns
                  THEN <<>>
                  ELSE Invoke(SelectSeq(JvmtiEnvIterator,
                                        LAMBDA e : ets_is_enabled(t, e, Exception)),
                              Exception, t, 0)
      /\ posted' = <<>>
      /\ lastOp' = Op("post_exception_throw", t, 0, ~returns)
      /\ UNCHANGED <<callVars, fieldVars, sideVars, phase, regVars, vthread_mounted, hide,
                     locVars, histVars, collVars>>

\* JvmtiExport::post_exception_throw, for an exception that is not null: an
\* exception not yet detected is marked detected and reported to the
\* environments that have Exception enabled; the cached depth is invalidated
\* in every case.
post_exception_throw(t) ==
  LET returns == ~get_jvmti_thread_state(t) \/ hide[t]
  IN  /\ resolve_state(t)
      /\ exc_state' = IF returns THEN exc_state ELSE [exc_state EXCEPT ![t] = ES_DETECTED]
      /\ cur_stack_depth' = IF returns
                              THEN cur_stack_depth
                              ELSE [cur_stack_depth EXCEPT ![t] = UNKNOWN_STACK_DEPTH]
      /\ log' = IF returns \/ exc_state[t] = ES_DETECTED
                  THEN <<>>
                  ELSE Invoke(SelectSeq(JvmtiEnvIterator,
                                        LAMBDA e : ets_is_enabled(t, e, Exception)),
                              Exception, t, 0)
      /\ posted' = <<>>
      /\ lastOp' = Op("post_exception_throw", t, 0, ~returns)
      /\ UNCHANGED <<callVars, fieldVars, sideVars, phase, regVars, vthread_mounted, hide,
                     locVars, histVars, collVars>>

\* Mutant: the unwinding is handled for every thread with state, with or
\* without a detected exception.
notice_unwind_due_to_exception_undetected(t, in_handler_frame) ==
  LET state == get_jvmti_thread_state(t)
      detected == state
  IN  /\ resolve_state(t)
      /\ exc_state' = IF detected /\ in_handler_frame
                        THEN [exc_state EXCEPT ![t] = ES_CAUGHT]
                        ELSE exc_state
      /\ cur_stack_depth' = IF detected
                              THEN [cur_stack_depth EXCEPT ![t] = UNKNOWN_STACK_DEPTH]
                              ELSE cur_stack_depth
      /\ log' = IF ~detected \/ hide[t]
                  THEN <<>>
                ELSE IF in_handler_frame
                  THEN Invoke(SelectSeq(JvmtiEnvIterator,
                                        LAMBDA e : ets_is_enabled(t, e, ExceptionCatch)),
                              ExceptionCatch, t, 0)
                ELSE IF is_interp_only_mode(t)
                  THEN Invoke(SelectSeq(JvmtiEnvIterator,
                                        LAMBDA e : ets_is_enabled(t, e, MethodExit)),
                              MethodExit, t, 0)
                  ELSE <<>>
      /\ posted' = <<>>
      /\ lastOp' = Op("notice_unwind_due_to_exception", t, IF in_handler_frame THEN 1 ELSE 0,
                      detected)
      /\ UNCHANGED <<callVars, fieldVars, sideVars, phase, regVars, vthread_mounted, hide,
                     locVars, histVars, collVars>>

\* JvmtiExport::notice_unwind_due_to_exception: nothing happens for a
\* thread without state or without a detected exception.  Otherwise the
\* cached stack depth is invalidated; in the handler frame the exception
\* becomes caught and ExceptionCatch is reported unless the thread hides its
\* events; in any other frame a thread in interp-only mode posts the method
\* exit (taken here without frame pop requests) and the depth is invalidated
\* once more.
notice_unwind_due_to_exception(t, in_handler_frame) ==
  LET state == get_jvmti_thread_state(t)
      detected == state /\ exc_state[t] = ES_DETECTED
  IN  /\ resolve_state(t)
      /\ exc_state' = IF detected /\ in_handler_frame
                        THEN [exc_state EXCEPT ![t] = ES_CAUGHT]
                        ELSE exc_state
      /\ cur_stack_depth' = IF detected
                              THEN [cur_stack_depth EXCEPT ![t] = UNKNOWN_STACK_DEPTH]
                              ELSE cur_stack_depth
      /\ log' = IF ~detected \/ hide[t]
                  THEN <<>>
                ELSE IF in_handler_frame
                  THEN Invoke(SelectSeq(JvmtiEnvIterator,
                                        LAMBDA e : ets_is_enabled(t, e, ExceptionCatch)),
                              ExceptionCatch, t, 0)
                ELSE IF is_interp_only_mode(t)
                  THEN Invoke(SelectSeq(JvmtiEnvIterator,
                                        LAMBDA e : ets_is_enabled(t, e, MethodExit)),
                              MethodExit, t, 0)
                  ELSE <<>>
      /\ posted' = <<>>
      /\ lastOp' = Op("notice_unwind_due_to_exception", t, IF in_handler_frame THEN 1 ELSE 0,
                      detected)
      /\ UNCHANGED <<callVars, fieldVars, sideVars, phase, regVars, vthread_mounted, hide,
                     locVars, histVars, collVars>>

\* JvmtiExport::clear_detected_exception: the exception state of a thread
\* that has a thread state is cleared.
clear_detected_exception(t) ==
  /\ exc_state' = IF has_state[t] THEN [exc_state EXCEPT ![t] = ES_CLEARED] ELSE exc_state
  /\ log' = <<>>
  /\ posted' = <<>>
  /\ lastOp' = Op("clear_detected_exception", t, 0, has_state[t])
  /\ UNCHANGED <<cur_stack_depth, callVars, fieldVars, sideVars, phase, regVars, threadVars,
                 locVars, histVars, collVars>>

-----------------------------------------------------------------------------
(* Event marks and thread-state transitions around a callback *)

\* JavaThreadState, the values the transitions move between.
ThreadStates == {"_thread_in_vm", "_thread_in_Java", "_thread_in_native"}

\* A scope object open on a thread: an event mark, one of the two
\* transitions, or a call from the callback back into the runtime.  at_depth
\* and at_state remember the handle depth and the thread state that the
\* constructor found.
Frame(kind, saved_exception_state, saved_state, t) ==
  [kind |-> kind,
   saved_exception_state |-> saved_exception_state,
   saved_state |-> saved_state,
   at_depth |-> handle_depth[t],
   at_state |-> thread_state[t]]

TopFrame(t) == frames[t][Len(frames[t])]

PopFrame(t) == frames' = [frames EXCEPT ![t] = SubSeq(@, 1, Len(@) - 1)]

\* The thread runs runtime or Java code outside any mark: at the top level,
\* or inside a call that a callback made into the runtime.
in_runtime(t) == IF frames[t] = <<>> THEN TRUE ELSE TopFrame(t).kind = "entry"

\* The thread goes from runtime code to Java code or back.
thread_runs(t, s) ==
  /\ in_runtime(t)
  /\ s \in {"_thread_in_vm", "_thread_in_Java"}
  /\ thread_state[t] # s
  /\ thread_state' = [thread_state EXCEPT ![t] = s]
  /\ log' = <<>>
  /\ posted' = <<>>
  /\ lastOp' = Op("thread_runs", t, 0, FALSE)
  /\ UNCHANGED <<excVars, handle_depth, frames, fieldVars, sideVars, phase, regVars, threadVars,
                 locVars, histVars, collVars>>

\* JvmtiEventMark::JvmtiEventMark: the exception state is saved, ES_CLEARED
\* if the thread has no state, and a JNI handle block is pushed.
JvmtiEventMark_ctor(t) ==
  /\ in_runtime(t)
  /\ Len(frames[t]) < MaxFrames
  /\ frames' = [frames EXCEPT ![t] =
       Append(@, Frame("mark", IF has_state[t] THEN exc_state[t] ELSE ES_CLEARED,
                       thread_state[t], t))]
  /\ handle_depth' = [handle_depth EXCEPT ![t] = @ + 1]
  /\ log' = <<>>
  /\ posted' = <<>>
  /\ lastOp' = Op("JvmtiEventMark_ctor", t, 0, has_state[t])
  /\ UNCHANGED <<excVars, thread_state, fieldVars, sideVars, phase, regVars, threadVars,
                 locVars, histVars, collVars>>

\* Mutant: the destructor pops the handle block and leaves the exception
\* state as the callback left it.
JvmtiEventMark_dtor_no_restore(t) ==
  /\ frames[t] # <<>>
  /\ TopFrame(t).kind = "mark"
  /\ PopFrame(t)
  /\ handle_depth' = [handle_depth EXCEPT ![t] = @ - 1]
  /\ log' = <<>>
  /\ posted' = <<>>
  /\ lastOp' = Op("JvmtiEventMark_dtor", t, 0,
                  has_state[t] /\ exc_state[t] # TopFrame(t).saved_exception_state)
  /\ UNCHANGED <<excVars, thread_state, fieldVars, sideVars, phase, regVars, threadVars,
                 locVars, histVars, collVars>>

\* JvmtiEventMark::~JvmtiEventMark: the handle block is popped and, if the
\* thread has a state now, the saved exception state is restored.
JvmtiEventMark_dtor(t) ==
  /\ frames[t] # <<>>
  /\ TopFrame(t).kind = "mark"
  /\ PopFrame(t)
  /\ handle_depth' = [handle_depth EXCEPT ![t] = @ - 1]
  /\ exc_state' = IF has_state[t]
                    THEN [exc_state EXCEPT ![t] = TopFrame(t).saved_exception_state]
                    ELSE exc_state
  /\ log' = <<>>
  /\ posted' = <<>>
  /\ lastOp' = Op("JvmtiEventMark_dtor", t, 0,
                  has_state[t] /\ exc_state[t] # TopFrame(t).saved_exception_state)
  /\ UNCHANGED <<cur_stack_depth, thread_state, fieldVars, sideVars, phase, regVars, threadVars,
                 locVars, histVars, collVars>>

\* The boundary of the safe-call transition when the callback has returned:
\* an exception that the callback left pending is logged and cleared.
callback_fault_cleared(t) == [pending_exception EXCEPT ![t] = NoException]

\* The running callback raises a Java exception (JNI Throw) and does not
\* clear it before it returns.
callback_throws(t, ex_name) ==
  /\ frames[t] # <<>>
  /\ TopFrame(t).kind \in {"jet", "tet"}
  /\ pending_exception[t] = NoException
  /\ pending_exception' = [pending_exception EXCEPT ![t] = ex_name]
  /\ log' = <<>>
  /\ posted' = <<>>
  /\ lastOp' = Op("callback_throws", t, 0, FALSE)
  /\ UNCHANGED <<excVars, callVars, fieldVars, lateVars, startVars, hookVars, lockVars, phase,
                 regVars,
                 threadVars, locVars, histVars, collVars>>

\* JvmtiJavaThreadEventTransition: ThreadToNativeFromVM takes a thread that is
\* in the VM to native for the callback.
JvmtiJavaThreadEventTransition_ctor(t) ==
  /\ frames[t] # <<>>
  /\ TopFrame(t).kind = "mark"
  /\ thread_state[t] = "_thread_in_vm"
  /\ Len(frames[t]) < MaxFrames
  /\ frames' = [frames EXCEPT ![t] = Append(@, Frame("jet", ES_CLEARED, "_thread_in_vm", t))]
  /\ thread_state' = [thread_state EXCEPT ![t] = "_thread_in_native"]
  /\ log' = <<>>
  /\ posted' = <<>>
  /\ lastOp' = Op("JvmtiJavaThreadEventTransition_ctor", t, 0, FALSE)
  /\ UNCHANGED <<excVars, handle_depth, fieldVars, sideVars, phase, regVars, threadVars,
                 locVars, histVars, collVars>>

\* ~ThreadToNativeFromVM: back from native to the VM.
JvmtiJavaThreadEventTransition_dtor(t) ==
  /\ frames[t] # <<>>
  /\ TopFrame(t).kind = "jet"
  /\ PopFrame(t)
  /\ thread_state' = [thread_state EXCEPT ![t] = "_thread_in_vm"]
  /\ pending_exception' = callback_fault_cleared(t)
  /\ log' = <<>>
  /\ posted' = <<>>
  /\ lastOp' = Op("JvmtiJavaThreadEventTransition_dtor", t, 0, FALSE)
  /\ UNCHANGED <<excVars, handle_depth, fieldVars, lateVars, startVars, hookVars, lockVars, phase,
                 regVars, threadVars,
                 locVars, histVars, collVars>>

\* JvmtiThreadEventTransition's constructor for a Java thread: the state is
\* saved and the thread goes to native from Java or from the VM.
JvmtiThreadEventTransition_ctor(t) ==
  /\ frames[t] # <<>>
  /\ TopFrame(t).kind = "mark"
  /\ Len(frames[t]) < MaxFrames
  /\ frames' = [frames EXCEPT ![t] = Append(@, Frame("tet", ES_CLEARED, thread_state[t], t))]
  /\ thread_state' = [thread_state EXCEPT ![t] = "_thread_in_native"]
  /\ log' = <<>>
  /\ posted' = <<>>
  /\ lastOp' = Op("JvmtiThreadEventTransition_ctor", t, 0, FALSE)
  /\ UNCHANGED <<excVars, handle_depth, fieldVars, sideVars, phase, regVars, threadVars,
                 locVars, histVars, collVars>>

\* Mutant: the destructor always returns the thread to the VM state.
JvmtiThreadEventTransition_dtor_to_vm(t) ==
  /\ frames[t] # <<>>
  /\ TopFrame(t).kind = "tet"
  /\ PopFrame(t)
  /\ thread_state' = [thread_state EXCEPT ![t] = "_thread_in_vm"]
  /\ pending_exception' = callback_fault_cleared(t)
  /\ log' = <<>>
  /\ posted' = <<>>
  /\ lastOp' = Op("JvmtiThreadEventTransition_dtor", t, 0, FALSE)
  /\ UNCHANGED <<excVars, handle_depth, fieldVars, lateVars, startVars, hookVars, lockVars, phase,
                 regVars, threadVars,
                 locVars, histVars, collVars>>

\* JvmtiThreadEventTransition's destructor: from native to the saved state.
JvmtiThreadEventTransition_dtor(t) ==
  /\ frames[t] # <<>>
  /\ TopFrame(t).kind = "tet"
  /\ PopFrame(t)
  /\ thread_state' = [thread_state EXCEPT ![t] = TopFrame(t).saved_state]
  /\ pending_exception' = callback_fault_cleared(t)
  /\ log' = <<>>
  /\ posted' = <<>>
  /\ lastOp' = Op("JvmtiThreadEventTransition_dtor", t, 0, FALSE)
  /\ UNCHANGED <<excVars, handle_depth, fieldVars, lateVars, startVars, hookVars, lockVars, phase,
                 regVars, threadVars,
                 locVars, histVars, collVars>>

\* The running callback calls a function of the runtime: the thread goes
\* from native into the VM (ThreadInVMfromNative).
callback_enters_vm(t) ==
  /\ frames[t] # <<>>
  /\ TopFrame(t).kind \in {"jet", "tet"}
  /\ Len(frames[t]) < MaxFrames
  /\ frames' = [frames EXCEPT ![t] =
       Append(@, Frame("entry", ES_CLEARED, "_thread_in_native", t))]
  /\ thread_state' = [thread_state EXCEPT ![t] = "_thread_in_vm"]
  /\ log' = <<>>
  /\ posted' = <<>>
  /\ lastOp' = Op("callback_enters_vm", t, 0, FALSE)
  /\ UNCHANGED <<excVars, handle_depth, fieldVars, sideVars, phase, regVars, threadVars,
                 locVars, histVars, collVars>>

\* The function that the callback called returns: back to native.
callback_leaves_vm(t) ==
  /\ frames[t] # <<>>
  /\ TopFrame(t).kind = "entry"
  /\ PopFrame(t)
  /\ thread_state' = [thread_state EXCEPT ![t] = "_thread_in_native"]
  /\ log' = <<>>
  /\ posted' = <<>>
  /\ lastOp' = Op("callback_leaves_vm", t, 0, FALSE)
  /\ UNCHANGED <<excVars, handle_depth, fieldVars, sideVars, phase, regVars, threadVars,
                 locVars, histVars, collVars>>

-----------------------------------------------------------------------------
(* Field watches and the probes of the JNI field accessors *)

FieldKinds == {FieldAccess, FieldModification}

\* JvmtiEventController::change_field_watch, run by thread t in the VM: the
\* counter of the event goes up or down.  The thread that made the change
\* reads the new value; the counters are plain ints read without a lock, so
\* what another thread reads is not changed by this step.
change_field_watch(t, k, added) ==
  /\ IF added THEN field_count[k] < MaxWatch ELSE field_count[k] > 0
  /\ field_count' = [field_count EXCEPT ![k] = IF added THEN @ + 1 ELSE @ - 1]
  /\ field_seen' = [field_seen EXCEPT ![t][k] = field_count'[k]]
  /\ log' = <<>>
  /\ posted' = <<>>
  /\ lastOp' = Op("change_field_watch", t, 0, added)
  /\ UNCHANGED <<excVars, callVars, sideVars, phase, regVars, threadVars, locVars, histVars, collVars>>

\* The counters' current values reach thread t's processor.
field_counts_visible(t) ==
  /\ field_seen[t] # field_count
  /\ field_seen' = [field_seen EXCEPT ![t] = field_count]
  /\ log' = <<>>
  /\ posted' = <<>>
  /\ lastOp' = Op("field_counts_visible", t, 0, FALSE)
  /\ UNCHANGED <<excVars, callVars, field_count, sideVars, phase, regVars, threadVars, locVars,
                 histVars, collVars>>

\* Mutant: a read of the counter always returns its latest value.
read_field_count_latest(t, k) == field_count[k]

\* *((int *)get_field_access_count_addr()) and
\* *((int *)get_field_modification_count_addr()) as read by thread t: no
\* lock is taken, the thread may read a value that is out of date.
read_field_count(t, k) == field_seen[t][k]

\* JvmtiExport::jni_GetField_probe and jni_SetField_probe with
\* post_field_access_by_jni, post_field_access and their modification
\* counterparts: the post is called if the counter read is positive and the
\* thread has a last Java frame; it returns if the thread hides events, the
\* field is not watched or the thread has no state, and calls the
\* environments that have the event enabled for the thread.
field_probe(name, t, k, has_last_Java_frame, watched) ==
  LET calls == read_field_count(t, k) > 0 /\ has_last_Java_frame
      reaches == calls /\ ~hide[t] /\ watched
  IN  /\ watched => field_count[k] > 0
      /\ IF reaches THEN resolve_state(t) ELSE UNCHANGED has_state
      /\ log' = IF reaches /\ get_jvmti_thread_state(t)
                  THEN Invoke(SelectSeq(JvmtiEnvIterator, LAMBDA e : ets_is_enabled(t, e, k)),
                              k, t, 0)
                  ELSE <<>>
      /\ posted' = <<>>
      /\ lastOp' = Op(name, t, IF has_last_Java_frame THEN 1 ELSE 0, calls)
      /\ UNCHANGED <<extVars, phase, regVars, vthread_mounted, hide, locVars, histVars,
                     collVars>>

jni_GetField_probe(t, has_last_Java_frame, watched) ==
  field_probe("jni_GetField_probe", t, FieldAccess, has_last_Java_frame, watched)

jni_SetField_probe(t, has_last_Java_frame, watched) ==
  field_probe("jni_SetField_probe", t, FieldModification, has_last_Java_frame, watched)

-----------------------------------------------------------------------------
(* Compiled methods *)

\* JvmtiExport::post_compiled_method_load(JvmtiEnv*, nmethod*): the callback
\* of one environment, if it is past PRIMORDIAL, has the event enabled and
\* has a callback entry.
compiled_method_load_calls(e, obj) ==
  IF env_phase(e) = "PRIMORDIAL" \/ ~env_is_enabled(e, CompiledMethodLoad)
    THEN <<>>
    ELSE Invoke(<<e>>, CompiledMethodLoad, NoThread, obj)

\* JvmtiExport::post_compiled_method_load(nmethod*): every environment of the
\* registry is handed to the per-environment post.
post_compiled_method_load(obj) ==
  /\ log' = IF PhaseRank(phase) < PhaseRank("PRIMORDIAL")
              THEN <<>>
              ELSE Flatten([i \in 1..Len(envs) |->
                             compiled_method_load_calls(JvmtiEnvIterator[i], obj)])
  /\ posted' = <<>>
  /\ lastOp' = Op("post_compiled_method_load", NoThread, 0, FALSE)
  /\ UNCHANGED <<extVars, phase, regVars, threadVars, locVars, histVars, collVars>>

\* JvmtiExport::post_compiled_method_unload: dropped before PRIMORDIAL; each
\* environment that has the event enabled and is past PRIMORDIAL is called.
post_compiled_method_unload(obj) ==
  /\ log' = IF PhaseRank(phase) < PhaseRank("PRIMORDIAL")
              THEN <<>>
              ELSE Invoke(SelectSeq(JvmtiEnvIterator,
                                    LAMBDA e : env_is_enabled(e, CompiledMethodUnload)
                                               /\ env_phase(e) # "PRIMORDIAL"),
                          CompiledMethodUnload, NoThread, obj)
  /\ posted' = <<>>
  /\ lastOp' = Op("post_compiled_method_unload", NoThread, 0, FALSE)
  /\ UNCHANGED <<extVars, phase, regVars, threadVars, locVars, histVars, collVars>>

-----------------------------------------------------------------------------
(* Method exit, frame pops and JvmtiThreadState_lock *)

\* JvmtiThreadState::decr_cur_stack_depth
decr_cur_stack_depth(d) == IF d = UNKNOWN_STACK_DEPTH THEN d ELSE d - 1

\* The positions of a thread in post_method_exit_inner at which an agent
\* callback is running.
InCallback == {"in_MethodExit", "in_FramePop"}

\* One step of thread t in post_method_exit_inner that touches nothing but
\* the thread's position, the lock and the observation variables.
exit_step(t, name, pc, i, owner, calls) ==
  /\ exit_pc' = [exit_pc EXCEPT ![t] = pc]
  /\ exit_i' = [exit_i EXCEPT ![t] = i]
  /\ lock_owner' = owner
  /\ log' = calls
  /\ posted' = <<>>
  /\ lastOp' = Op(name, t, 0, owner = t)

\* JvmtiExport::post_method_exit_inner is entered by a thread that has its
\* state; it returns at once for a thread that hides its events.
post_method_exit_inner(t) ==
  /\ exit_pc[t] = "idle"
  /\ has_state[t]
  /\ cur_stack_depth[t] # 0
  /\ exit_step(t, "post_method_exit_inner",
               IF hide[t] THEN "idle"
               ELSE IF state_is_enabled(t, MethodExit) THEN "MethodExit_loop"
               ELSE "FramePop_loop",
               1, lock_owner, <<>>)
  /\ UNCHANGED <<excVars, callVars, fieldVars, lateVars, modVars, startVars, hookVars, phase, regVars,
                 threadVars, locVars, histVars, collVars>>

\* The loop over the environments for MethodExit: the callback of an
\* environment that has the event enabled for the thread is invoked, with no
\* lock held; the thread stays in the callback until it returns.
method_exit_loop(t) ==
  /\ exit_pc[t] = "MethodExit_loop"
  /\ LET e == exit_i[t]
     IN  IF e > Len(envs)
           THEN exit_step(t, "method_exit_loop", "FramePop_loop", 1, lock_owner, <<>>)
         ELSE IF ets_is_enabled(t, e, MethodExit) /\ MethodExit \in envs[e].callbacks
           THEN exit_step(t, "method_exit_loop", "in_MethodExit", e, lock_owner,
                          Invoke(<<e>>, MethodExit, t, 0))
           ELSE exit_step(t, "method_exit_loop", "MethodExit_loop", e + 1, lock_owner, <<>>)
  /\ UNCHANGED <<excVars, callVars, fieldVars, lateVars, modVars, startVars, hookVars, phase, regVars,
                 threadVars, locVars, histVars, collVars>>

\* Mutant: the FramePop callback is invoked with JvmtiThreadState_lock held.
frame_pop_loop_locking(t, is_frame_pop) ==
  /\ exit_pc[t] = "FramePop_loop"
  /\ exit_i[t] <= Len(envs)
  /\ is_frame_pop
  /\ lock_owner = NoThread
  /\ exit_step(t, "frame_pop_loop", "in_FramePop", exit_i[t], t,
               Invoke(<<exit_i[t]>>, FramePop, t, 0))
  /\ UNCHANGED <<excVars, callVars, fieldVars, lateVars, modVars, startVars, hookVars, phase, regVars,
                 threadVars, locVars, histVars, collVars>>

\* The loop over the environments for frame pops: is_frame_pop says whether
\* the environment has a frame pop request for the current frame.  If it has,
\* the FramePop callback is invoked when the event is enabled, with no lock
\* held, and then the request is removed under the lock.  At the end of the
\* loop the cached stack depth is decremented.
frame_pop_loop(t, is_frame_pop) ==
  /\ exit_pc[t] = "FramePop_loop"
  /\ LET e == exit_i[t]
     IN  IF e > Len(envs)
           THEN /\ exit_step(t, "frame_pop_loop", "idle", 1, lock_owner, <<>>)
                /\ cur_stack_depth' =
                     [cur_stack_depth EXCEPT ![t] = decr_cur_stack_depth(@)]
           ELSE /\ UNCHANGED cur_stack_depth
                /\ IF ~is_frame_pop
                     THEN exit_step(t, "frame_pop_loop", "FramePop_loop", e + 1,
                                    lock_owner, <<>>)
                   ELSE IF ets_is_enabled(t, e, FramePop) /\ FramePop \in envs[e].callbacks
                     THEN exit_step(t, "frame_pop_loop", "in_FramePop", e, lock_owner,
                                    Invoke(<<e>>, FramePop, t, 0))
                     ELSE exit_step(t, "frame_pop_loop", "clear_frame_pop", e,
                                    lock_owner, <<>>)
  /\ UNCHANGED <<exc_state, callVars, fieldVars, lateVars, modVars, startVars, hookVars, phase, regVars,
                 threadVars, locVars, histVars, collVars>>

\* The callback that t is in returns to post_method_exit_inner.
exit_callback_returns(t) ==
  /\ exit_pc[t] \in InCallback
  /\ IF exit_pc[t] = "in_MethodExit"
       THEN exit_step(t, "exit_callback_returns", "MethodExit_loop", exit_i[t] + 1,
                      lock_owner, <<>>)
       ELSE exit_step(t, "exit_callback_returns", "clear_frame_pop", exit_i[t],
                      lock_owner, <<>>)
  /\ UNCHANGED <<excVars, callVars, fieldVars, lateVars, modVars, startVars, hookVars, phase, regVars,
                 threadVars, locVars, histVars, collVars>>

\* MutexLocker mu(JvmtiThreadState_lock): t waits until the lock is free.
clear_frame_pop_lock(t) ==
  /\ exit_pc[t] = "clear_frame_pop"
  /\ lock_owner = NoThread
  /\ exit_step(t, "clear_frame_pop_lock", "locked", exit_i[t], t, <<>>)
  /\ UNCHANGED <<excVars, callVars, fieldVars, lateVars, modVars, startVars, hookVars, phase, regVars,
                 threadVars, locVars, histVars, collVars>>

\* JvmtiEnvThreadState::is_frame_pop(cur_frame_number), for the frame that
\* t is leaving.
ets_is_frame_pop(t, e) == cur_stack_depth[t] \in frame_pops[t][e]

\* JvmtiEnvThreadState::clear_frame_pop(cur_frame_number)
clear_frame_pop(t, e) ==
  frame_pops' = [frame_pops EXCEPT ![t][e] = @ \ {cur_stack_depth[t]}]

\* Mutant: the request is removed only if the event is enabled.
clear_frame_pop_unlock_if_enabled(t) ==
  /\ exit_pc[t] = "locked"
  /\ lock_owner = t
  /\ exit_step(t, "clear_frame_pop_unlock", "FramePop_loop", exit_i[t] + 1, NoThread, <<>>)
  /\ IF ets_is_frame_pop(t, exit_i[t]) /\ ets_is_enabled(t, exit_i[t], FramePop)
       THEN clear_frame_pop(t, exit_i[t])
       ELSE UNCHANGED frame_pops
  /\ UNCHANGED <<excVars, callVars, fieldVars, deathVars, lastVars, modVars, startVars, hookVars, phase,
                 regVars, threadVars, locVars, histVars, collVars>>

\* The request is looked for once more under the lock and removed if it is
\* still there; the lock is released at the end of the block.
clear_frame_pop_unlock(t) ==
  /\ exit_pc[t] = "locked"
  /\ lock_owner = t
  /\ exit_step(t, "clear_frame_pop_unlock", "FramePop_loop", exit_i[t] + 1, NoThread, <<>>)
  /\ IF ets_is_frame_pop(t, exit_i[t])
       THEN clear_frame_pop(t, exit_i[t])
       ELSE UNCHANGED frame_pops
  /\ UNCHANGED <<excVars, callVars, fieldVars, deathVars, lastVars, modVars, startVars, hookVars, phase,
                 regVars, threadVars, locVars, histVars, collVars>>

\* JVMTI NotifyFramePop by environment e for the frame of t with number d,
\* while t is outside post_method_exit_inner: a request that is already
\* there is refused.
NotifyFramePop(t, e, d) ==
  /\ exit_pc[t] = "idle"
  /\ e \in 1..Len(envs)
  /\ d \in 1..cur_stack_depth[t]
  /\ d \notin frame_pops[t][e]
  /\ frame_pops' = [frame_pops EXCEPT ![t][e] = @ \cup {d}]
  /\ log' = <<>>
  /\ posted' = <<>>
  /\ lastOp' = Op("NotifyFramePop", t, d, TRUE)
  /\ UNCHANGED <<excVars, callVars, fieldVars, deathVars, lastVars, modVars, startVars, hookVars, lockVars,
                 phase, regVars, threadVars, locVars, histVars, collVars>>

\* JVMTI ClearAllFramePops by environment e for thread t, at a safepoint: at
\* any moment at which t is not inside the block that holds the lock.
ClearAllFramePops(t, e) ==
  /\ exit_pc[t] # "locked"
  /\ e \in 1..Len(envs)
  /\ frame_pops[t][e] # {}
  /\ frame_pops' = [frame_pops EXCEPT ![t][e] = {}]
  /\ log' = <<>>
  /\ posted' = <<>>
  /\ lastOp' = Op("ClearAllFramePops", t, 0, TRUE)
  /\ UNCHANGED <<excVars, callVars, fieldVars, deathVars, lastVars, modVars, startVars, hookVars, lockVars,
                 phase, regVars, threadVars, locVars, histVars, collVars>>

\* Mutant: the yield leaves the cached stack depth as it is.
continuation_yield_cleanup_keeping_depth(t, clears) ==
  LET returns == PhaseRank(phase) < PhaseRank("PRIMORDIAL") \/ ~get_jvmti_thread_state(t)
  IN  /\ exit_pc[t] = "idle"
      /\ (~returns /\ clears) => lock_owner = NoThread
      /\ resolve_state(t)
      /\ log' = <<>>
      /\ posted' = <<>>
      /\ lastOp' = Op("continuation_yield_cleanup", t, 0, ~returns)
      /\ UNCHANGED <<excVars, callVars, fieldVars, sideVars, phase, regVars,
                     vthread_mounted, hide, locVars, histVars, collVars>>

\* JvmtiExport::continuation_yield_cleanup: dropped before PRIMORDIAL and for
\* a thread without state; else the cached stack depth is invalidated, and
\* if frames popped by the yield had frame pop requests (clears), these are
\* removed under JvmtiThreadState_lock, which the thread waits for.
continuation_yield_cleanup(t, clears) ==
  LET returns == PhaseRank(phase) < PhaseRank("PRIMORDIAL") \/ ~get_jvmti_thread_state(t)
  IN  /\ exit_pc[t] = "idle"
      /\ (~returns /\ clears) => lock_owner = NoThread
      /\ resolve_state(t)
      /\ cur_stack_depth' = IF returns
                              THEN cur_stack_depth
                              ELSE [cur_stack_depth EXCEPT ![t] = UNKNOWN_STACK_DEPTH]
      /\ log' = <<>>
      /\ posted' = <<>>
      /\ lastOp' = Op("continuation_yield_cleanup", t, 0, ~returns)
      /\ UNCHANGED <<exc_state, callVars, fieldVars, sideVars, phase, regVars,
                     vthread_mounted, hide, locVars, histVars, collVars>>

-----------------------------------------------------------------------------
(* VM start *)

\* JvmtiEnvBase::early_vmstart_env: a capability bit.
early_vmstart_env(e) == "can_generate_early_vmstart" \in envs[e].caps

\* The VMStart callbacks of one of the two posts: early says which of the
\* environments it is for.
vm_start_calls_to(early, t) ==
  Invoke(SelectSeq(JvmtiEnvIterator,
                   LAMBDA e : early_vmstart_env(e) = early /\ env_is_enabled(e, VMStart)),
         VMStart, t, 0)

\* The callbacks counted per environment.
count_vm_start(calls) ==
  [e \in EnvIds |->
     vm_start_count[e] + Cardinality({i \in 1..Len(calls) : calls[i].env = e})]

\* JvmtiExport::post_early_vm_start, which the startup runs once: only the
\* early-vmstart environments are called.
post_early_vm_start(t) ==
  /\ "post_early_vm_start" \notin vm_start_calls
  /\ vm_start_calls' = vm_start_calls \cup {"post_early_vm_start"}
  /\ log' = vm_start_calls_to(TRUE, t)
  /\ vm_start_count' = count_vm_start(vm_start_calls_to(TRUE, t))
  /\ posted' = <<>>
  /\ lastOp' = Op("post_early_vm_start", t, 0, FALSE)
  /\ UNCHANGED <<excVars, callVars, fieldVars, lateVars, modVars, hookVars, lockVars, phase, regVars,
                 threadVars, locVars, histVars, collVars>>

\* Mutant: the normal post calls every environment that has VMStart enabled.
post_vm_start_to_all(t) ==
  /\ "post_vm_start" \notin vm_start_calls
  /\ vm_start_calls' = vm_start_calls \cup {"post_vm_start"}
  /\ log' = Invoke(global_event_envs(VMStart), VMStart, t, 0)
  /\ vm_start_count' = count_vm_start(Invoke(global_event_envs(VMStart), VMStart, t, 0))
  /\ posted' = <<>>
  /\ lastOp' = Op("post_vm_start", t, 0, FALSE)
  /\ UNCHANGED <<excVars, callVars, fieldVars, lateVars, modVars, hookVars, lockVars, phase, regVars,
                 threadVars, locVars, histVars, collVars>>

\* JvmtiExport::post_vm_start, which the startup runs once: the environments
\* that are not early-vmstart environments are called.
post_vm_start(t) ==
  /\ "post_vm_start" \notin vm_start_calls
  /\ vm_start_calls' = vm_start_calls \cup {"post_vm_start"}
  /\ log' = vm_start_calls_to(FALSE, t)
  /\ vm_start_count' = count_vm_start(vm_start_calls_to(FALSE, t))
  /\ posted' = <<>>
  /\ lastOp' = Op("post_vm_start", t, 0, FALSE)
  /\ UNCHANGED <<excVars, callVars, fieldVars, lateVars, modVars, hookVars, lockVars, phase, regVars,
                 threadVars, locVars, histVars, collVars>>

-----------------------------------------------------------------------------
(* Module operations: up-calls into Java on behalf of an agent *)

JVMTI_ERROR_NONE == "JVMTI_ERROR_NONE"
JVMTI_ERROR_INTERNAL == "JVMTI_ERROR_INTERNAL"
JVMTI_ERROR_ILLEGAL_ARGUMENT == "JVMTI_ERROR_ILLEGAL_ARGUMENT"

\* What is pending on the thread when JavaCalls::call_static returns: the
\* exception the Java method raised, else what was pending before.
call_static(t, raised) == IF raised # NoException THEN raised ELSE pending_exception[t]

\* The error a module operation makes of the pending exception ex_name.
module_error(ex_name, maps_illegal_argument) ==
  IF ex_name = NoException THEN JVMTI_ERROR_NONE
  ELSE IF maps_illegal_argument /\ ex_name = IllegalArgumentException
    THEN JVMTI_ERROR_ILLEGAL_ARGUMENT
    ELSE JVMTI_ERROR_INTERNAL

\* The common body of the add_module_* operations, run by thread t:
\* initialized is Universe::is_module_initialized(), raised is the exception
\* the Java method raises ("none": it returns normally).  A pending exception
\* is printed to the log and cleared; the caller sees the error code only.
module_up_call(name, t, initialized, raised, maps_illegal_argument, returns_void) ==
  LET pending == call_static(t, raised)
      rc == IF returns_void THEN "void"
            ELSE IF ~initialized THEN JVMTI_ERROR_NONE
            ELSE module_error(pending, maps_illegal_argument)
  IN  /\ thread_state[t] = "_thread_in_vm"
      /\ pending_exception' = IF initialized
                                THEN [pending_exception EXCEPT ![t] = NoException]
                                ELSE pending_exception
      /\ log' = <<>>
      /\ posted' = <<>>
      /\ lastOp' = Op(name, t, [rc |-> rc, raised |-> raised, initialized |-> initialized,
                                before |-> pending_exception[t]],
                      initialized /\ pending # NoException)
      /\ UNCHANGED <<excVars, callVars, fieldVars, lateVars, startVars, hookVars, lockVars, phase,
                 regVars,
                     threadVars, locVars, histVars, collVars>>

\* JvmtiExport::add_default_read_edges
add_default_read_edges(t, initialized, raised) ==
  module_up_call("add_default_read_edges", t, initialized, raised, FALSE, TRUE)

\* JvmtiExport::add_module_reads
add_module_reads(t, initialized, raised) ==
  module_up_call("add_module_reads", t, initialized, raised, FALSE, FALSE)

\* Mutant: the exception of the up-call stays pending on the thread.
add_module_exports_propagating(t, initialized, raised) ==
  /\ thread_state[t] = "_thread_in_vm"
  /\ pending_exception' = IF initialized
                            THEN [pending_exception EXCEPT ![t] = call_static(t, raised)]
                            ELSE pending_exception
  /\ log' = <<>>
  /\ posted' = <<>>
  /\ lastOp' = Op("add_module_exports", t,
                  [rc |-> IF initialized THEN module_error(call_static(t, raised), TRUE)
                                         ELSE JVMTI_ERROR_NONE,
                   raised |-> raised, initialized |-> initialized,
                   before |-> pending_exception[t]],
                  initialized /\ call_static(t, raised) # NoException)
  /\ UNCHANGED <<excVars, callVars, fieldVars, lateVars, startVars, hookVars, lockVars, phase,
                 regVars,
                 threadVars, locVars, histVars, collVars>>

\* JvmtiExport::add_module_exports
add_module_exports(t, initialized, raised) ==
  module_up_call("add_module_exports", t, initialized, raised, TRUE, FALSE)

\* JvmtiExport::add_module_opens
add_module_opens(t, initialized, raised) ==
  module_up_call("add_module_opens", t, initialized, raised, TRUE, FALSE)

\* JvmtiExport::add_module_uses
add_module_uses(t, initialized, raised) ==
  module_up_call("add_module_uses", t, initialized, raised, FALSE, FALSE)

\* JvmtiExport::add_module_provides
add_module_provides(t, initialized, raised) ==
  module_up_call("add_module_provides", t, initialized, raised, FALSE, FALSE)

ModuleOps ==
  {"add_default_read_edges", "add_module_reads", "add_module_exports", "add_module_opens",
   "add_module_uses", "add_module_provides"}

-----------------------------------------------------------------------------
(* Initial state and the dispatch specification *)

\* The state after construction, in phase p: no environment, no thread state.
InitAt(p, mounted) ==
  /\ phase = p
  /\ envs = <<>>
  /\ has_state = [t \in Threads |-> FALSE]
  /\ vthread_mounted = mounted
  /\ hide = [t \in Threads |-> FALSE]
  /\ cur_loc = [t \in Threads |-> [e \in EnvIds |-> 0]]
  /\ ss_posted = [t \in Threads |-> [e \in EnvIds |-> FALSE]]
  /\ bp_posted = [t \in Threads |-> [e \in EnvIds |-> FALSE]]
  /\ at = [t \in Threads |-> 0]
  /\ ss_count = [t \in Threads |-> [e \in EnvIds |-> 0]]
  /\ bp_count = [t \in Threads |-> [e \in EnvIds |-> 0]]
  /\ slot = [t \in Threads |-> [ck \in CollectorKinds |-> 0]]
  /\ scopes = [t \in Threads |-> <<>>]
  /\ deferred = <<>>
  /\ exc_state = [t \in Threads |-> ES_CLEARED]
  /\ cur_stack_depth = [t \in Threads |-> 0]
  /\ thread_state = [t \in Threads |-> "_thread_in_vm"]
  /\ handle_depth = [t \in Threads |-> 0]
  /\ frames = [t \in Threads |-> <<>>]
  /\ field_count = [k \in {FieldAccess, FieldModification} |-> 0]
  /\ field_seen = [t \in Threads |-> [k \in {FieldAccess, FieldModification} |-> 0]]
  /\ pending_exception = [t \in Threads |-> NoException]
  /\ vm_start_calls = {}
  /\ vm_start_count = [e \in EnvIds |-> 0]
  /\ class_data = OriginalBytes
  /\ cached_class_file = <<>>
  /\ exit_pc = [t \in Threads |-> "idle"]
  /\ exit_i = [t \in Threads |-> 1]
  /\ lock_owner = NoThread
  /\ object_free_events = <<>>
  /\ death_pc = "idle"
  /\ death_i = 1
  /\ frame_pops = [t \in Threads |-> [e \in EnvIds |-> {}]]
  /\ flush = [t \in Threads |-> NoFlush]
  /\ poster_pc = [t \in Threads |-> PosterIdle]
  /\ has_default_read_edges = [m \in Modules |-> FALSE]
  /\ default_read_edges_added = [m \in Modules |-> <<>>]
  /\ posted = <<>>
  /\ log = <<>>
  /\ lastOp = Op("init", NoThread, 0, FALSE)

Init == \E mounted \in [Threads -> BOOLEAN] : InitAt("PRIMORDIAL", mounted)

\* The live phase before any agent has registered; t2 carries a mounted
\* virtual thread, t1 is a platform thread.
InitLive == InitAt("LIVE", [t \in Threads |-> t = "t2"])

Locations == 1..MaxLoc

\* Registration order and the class events: ClassLoad and ClassFileLoadHook.
NextOrder ==
  \/ enter_start_phase
  \/ enter_onload_phase
  \/ enter_live_phase
  \/ \E caps \in {{}, {"can_retransform_classes"}} : get_jvmti_interface(JVMTI_VERSION_1_2, caps, Kinds)
  \/ \E e \in EnvIds, k \in {ClassLoad, ClassFileLoadHook} :
       set_event_enabled(e, k, NoThread, TRUE)
  \/ \E t \in Threads : post_class_load(t)
  \/ \E t \in Threads, lk \in LoadKinds : post_class_file_load_hook(t, lk, NoNewData)

SpecOrder == Init /\ [][NextOrder]_vars

\* Location events: SingleStep is enabled and disabled per environment; t1
\* steps and hits breakpoints at every location, t2 steps at one location.
\* Only the first environment may have an empty callback table.
NextStep ==
  \/ \E cb \in (IF envs = <<>> THEN CallbackTables ELSE {Kinds}) :
       get_jvmti_interface(JVMTI_VERSION_1_2, {}, cb)
  \/ \E e \in EnvIds, on \in BOOLEAN : set_event_enabled(e, SingleStep, NoThread, on)
  \/ \E on \in BOOLEAN : set_hide("t1", on)
  \/ \E loc \in Locations, mt \in BOOLEAN : post_single_step("t1", loc, mt)
  \/ post_single_step("t2", 1, FALSE)
  \/ \E loc \in Locations : post_raw_breakpoint("t1", loc)

SpecStep == InitLive /\ [][NextStep]_vars

\* Collectors on one thread: one agent registers, and the three
\* allocation-style events are enabled and disabled in its environment while collectors and marks are
\* created and destroyed in stack order and allocations are reported.
NextCollector ==
  \/ envs = <<>> /\ get_jvmti_interface(JVMTI_VERSION_1_2, {}, Kinds)
  \/ \E k \in {VMObjectAlloc, SampledObjectAlloc, DynamicCodeGenerated}, on \in BOOLEAN :
       set_event_enabled(1, k, NoThread, on)
  \/ \E ck \in CollectorKinds : create_collector("t1", ck, TRUE)
  \/ create_collector("t1", "sampled_object_alloc", FALSE)
  \/ destroy_collector("t1")
  \/ create_mark("t1")
  \/ destroy_mark("t1")
  \/ \E obj \in Objects : record_vm_internal_object_allocation("t1", obj, FALSE)
  \/ record_vm_internal_object_allocation("t1", 1, TRUE)
  \/ \E obj \in Objects : record_sampled_internal_object_allocation("t1", obj)
  \/ \E obj \in Objects : post_dynamic_code_generated_while_holding_locks("t1", obj)
  \/ service_thread_post

SpecCollector == InitLive /\ [][NextCollector]_vars

\* The first agent subscribes to ClassLoad for all threads, the second to
\* Breakpoint thread by thread; classes load and breakpoints are hit on both threads,
\* and t1 also moves by single steps.
NextScenario ==
  \/ get_jvmti_interface(JVMTI_VERSION_1_2, {}, Kinds)
  \/ set_event_enabled(1, ClassLoad, NoThread, TRUE)
  \/ \E t \in Threads, on \in BOOLEAN : set_event_enabled(2, Breakpoint, t, on)
  \/ \E t \in Threads : post_class_load(t)
  \/ \E t \in Threads, loc \in Locations : post_raw_breakpoint(t, loc)
  \/ \E loc \in Locations : post_single_step("t1", loc, FALSE)

SpecScenario == InitLive /\ [][NextScenario]_vars

\* The lifecycle: every phase advance in any order, agents registering and
\* subscribing, and every post operation, before and after VM death.
NextPhase ==
  \/ enter_primordial_phase
  \/ enter_start_phase
  \/ enter_onload_phase
  \/ enter_live_phase
  \/ post_vm_death
  \/ envs = <<>> /\ get_jvmti_interface(JVMTI_VERSION_1_2, {"can_retransform_classes"}, Kinds)
  \/ \E k \in {ClassLoad, ClassFileLoadHook, VMObjectAlloc, SampledObjectAlloc,
              DynamicCodeGenerated, GarbageCollectionStart, VMDeath} :
       set_event_enabled(1, k, NoThread, TRUE)
  \/ set_event_enabled(1, SingleStep, "t2", TRUE)
  \/ post_garbage_collection_start
  \/ post_class_load("t2")
  \/ post_class_file_load_hook("t2", "load", NoNewData)
  \/ post_single_step("t2", 1, FALSE)
  \/ post_raw_breakpoint("t2", 1)
  \/ post_vm_object_alloc("t2", 1)
  \/ post_sampled_object_alloc("t2", 1)
  \/ post_dynamic_code_generated(1)
  \/ service_thread_post

InitPhase == InitAt("PRIMORDIAL", [t \in Threads |-> t = "t2"])

SpecPhase == InitPhase /\ [][NextPhase]_vars

\* Registration and the delivery filter: agents ask for an environment with
\* any version, with or without callbacks, in every phase; ClassLoad is
\* enabled for all threads or for t1, CompiledMethodLoad for all threads.
NextRegister ==
  \/ enter_start_phase
  \/ enter_onload_phase
  \/ enter_live_phase
  \/ post_vm_death
  \/ \E version \in Versions, cb \in CallbackTables : get_jvmti_interface(version, {}, cb)
  \/ \E e \in EnvIds : set_event_enabled(e, ClassLoad, NoThread, TRUE)
  \/ \E e \in EnvIds, on \in BOOLEAN : set_event_enabled(e, ClassLoad, "t1", on)
  \/ \E e \in EnvIds, on \in BOOLEAN : set_event_enabled(e, CompiledMethodLoad, NoThread, on)
  \/ \E t \in Threads : post_class_load(t)
  \/ post_compiled_method_load(1)

SpecRegister == InitPhase /\ [][NextRegister]_vars

\* Posts with and without subscribers: one agent enables and disables
\* SingleStep, Exception and ThreadStart while t1, a platform thread, and t2,
\* which carries a virtual thread, start, enter methods, step and throw.
NextQuiet ==
  \/ envs = <<>> /\ get_jvmti_interface(JVMTI_VERSION_1_2, {}, Kinds)
  \/ \E k \in {SingleStep, Exception, ThreadStart}, on \in BOOLEAN :
       set_event_enabled(1, k, NoThread, on)
  \/ \E t \in Threads : post_thread_start(t)
  \/ \E mt \in BOOLEAN : post_method_entry("t1", mt)
  \/ \E t \in Threads : post_exception_throw(t)
  \/ notice_unwind_due_to_exception("t1", TRUE)
  \/ \E loc \in Locations : post_single_step("t1", loc, FALSE)
  \/ post_class_load("t2")

SpecQuiet == InitLive /\ [][NextQuiet]_vars

\* Marks and transitions on t1: a post opens a mark and a transition around
\* each callback; the callback may call back into the runtime, where threads
\* start, exceptions are thrown and caught and further events are posted.
NextMark ==
  \/ \E s \in ThreadStates : thread_runs("t1", s)
  \/ JvmtiEventMark_ctor("t1")
  \/ JvmtiEventMark_dtor("t1")
  \/ JvmtiJavaThreadEventTransition_ctor("t1")
  \/ JvmtiJavaThreadEventTransition_dtor("t1")
  \/ JvmtiThreadEventTransition_ctor("t1")
  \/ JvmtiThreadEventTransition_dtor("t1")
  \/ callback_enters_vm("t1")
  \/ callback_leaves_vm("t1")
  \/ in_runtime("t1") /\ thread_state["t1"] = "_thread_in_vm" /\ post_thread_start("t1")
  \/ in_runtime("t1") /\ post_exception_throw("t1")
  \/ in_runtime("t1") /\ notice_unwind_due_to_exception("t1", TRUE)

SpecMark == InitLive /\ [][NextMark]_vars

\* Thread states that come and go: agents subscribe to ClassLoad and
\* Exception for all threads, virtual threads without a state are mounted,
\* threads hide their events, and classes load and exceptions are thrown.
NextState ==
  \/ \E cb \in CallbackTables : get_jvmti_interface(JVMTI_VERSION_1_2, {}, cb)
  \/ \E e \in EnvIds, k \in {ClassLoad, Exception}, on \in BOOLEAN :
       set_event_enabled(e, k, NoThread, on)
  \/ \E t \in Threads : mount_vthread(t)
  \/ \E on \in BOOLEAN : set_hide("t1", on)
  \/ \E t \in Threads : post_class_load(t)
  \/ \E t \in Threads : post_exception_throw(t)

SpecState == InitLive /\ [][NextState]_vars

\* Field watches: one agent enables the field events for all threads or for
\* t1, watches are set and cleared by either thread, and both threads read
\* and write fields through JNI.
NextField ==
  \/ envs = <<>> /\ get_jvmti_interface(JVMTI_VERSION_1_2, {}, Kinds)
  \/ \E k \in FieldKinds, t \in {NoThread, "t1"}, on \in BOOLEAN :
       set_event_enabled(1, k, t, on)
  \/ \E t \in Threads, k \in FieldKinds, added \in BOOLEAN : change_field_watch(t, k, added)
  \/ \E t \in Threads : field_counts_visible(t)
  \/ \E t \in Threads, f \in BOOLEAN, w \in BOOLEAN : jni_GetField_probe(t, f, w)
  \/ \E t \in Threads, f \in BOOLEAN, w \in BOOLEAN : jni_SetField_probe(t, f, w)

SpecField == InitLive /\ [][NextField]_vars

\* The deferred events: class unloads and dynamic code are reported in every
\* phase while one agent registers and subscribes; the service thread, which
\* loops for as long as the runtime lives, posts what is queued.
NextDeferred ==
  \/ enter_start_phase
  \/ enter_onload_phase
  \/ enter_live_phase
  \/ post_vm_death
  \/ envs = <<>> /\ get_jvmti_interface(JVMTI_VERSION_1_2, {}, Kinds)
  \/ \E k \in {ClassUnload, DynamicCodeGenerated}, on \in BOOLEAN :
       set_event_enabled(1, k, NoThread, on)
  \/ \E obj \in Objects : post_class_unload(obj)
  \/ \E obj \in Objects : post_dynamic_code_generated(obj)
  \/ service_thread_post

SpecDeferred == InitPhase /\ [][NextDeferred]_vars /\ WF_vars(service_thread_post)

-----------------------------------------------------------------------------
(* Claims about the dispatch engine *)

\* C1 as stated: in every post, of any event kind, the callbacks are invoked
\* in registration order: an environment registered earlier is called earlier.
C1_RegistrationOrder ==
  \A i, j \in 1..Len(log) : i < j => log[i].env < log[j].env

\* C1 amended: a post invokes the callbacks in registration order, except
\* that a ClassFileLoadHook post calls every environment that cannot
\* retransform before every environment that can, and keeps registration
\* order within each of the two groups.
C1_OrderWithinGroups ==
  \A i, j \in 1..Len(log) :
    i < j =>
      IF log[i].kind = ClassFileLoadHook
        THEN /\ is_retransformable(log[i].env) => is_retransformable(log[j].env)
             /\ (is_retransformable(log[i].env) = is_retransformable(log[j].env))
                  => log[i].env < log[j].env
        ELSE log[i].env < log[j].env

\* A ClassFileLoadHook post that called a later-registered environment that
\* cannot retransform before an earlier-registered one that can.
C1_Witness ==
  /\ lastOp.op = "post_class_file_load_hook"
  /\ Len(log) >= 2
  /\ log[1].env > log[2].env
  /\ ~is_retransformable(log[1].env)
  /\ is_retransformable(log[2].env)

\* C2: for every thread, location and environment, repeated post_single_step
\* calls at the same location deliver at most one SingleStep callback until
\* the location changes, and once it has changed the next post_single_step
\* delivers again: after a step that reached the loop, every environment that
\* has SingleStep enabled for the thread and a callback for it has been called
\* exactly once since the thread came to its location.
C2_SingleStepOncePerLocation ==
  \A t \in Threads, e \in 1..Len(envs) :
    /\ ss_count[t][e] <= 1
    /\ (/\ lastOp.op = "post_single_step"
        /\ lastOp.thread = t
        /\ lastOp.flag
        /\ ets_is_enabled(t, e, SingleStep)
        /\ has_callback(e, SingleStep))
       => ss_count[t][e] = 1

\* A repeated step at the second location that called nobody although an
\* environment with a callback has SingleStep enabled: the step was delivered
\* there once (re-armed by the move), and is not delivered again.
C2_Witness ==
  /\ lastOp.op = "post_single_step"
  /\ lastOp.flag
  /\ lastOp.arg = 2
  /\ log = <<>>
  /\ \E e \in 1..Len(envs) :
       /\ ets_is_enabled(lastOp.thread, e, SingleStep)
       /\ has_callback(e, SingleStep)
       /\ ss_count[lastOp.thread][e] = 1

\* The callbacks of the last operation that went to environment e.
CallsTo(e) == Cardinality({i \in 1..Len(log) : log[i].env = e})

\* Environment A has ClassLoad enabled for all threads and Breakpoint nowhere;
\* environment B has Breakpoint enabled on thread T only and ClassLoad
\* nowhere; both have their callbacks set.
Scenario(A, B, T) ==
  /\ A # B
  /\ ClassLoad \in envs[A].enabled
  /\ Breakpoint \notin envs[A].enabled
  /\ \A u \in Threads : Breakpoint \notin envs[A].tenabled[u]
  /\ ClassLoad \notin envs[B].enabled
  /\ Breakpoint \notin envs[B].enabled
  /\ \A u \in Threads : /\ ClassLoad \notin envs[B].tenabled[u]
                        /\ Breakpoint \in envs[B].tenabled[u] <=> u = T
  /\ has_callback(A, ClassLoad)
  /\ has_callback(B, Breakpoint)

\* C3: with A enabled globally for ClassLoad and B enabled for Breakpoint
\* only on thread T, a post_class_load on any thread calls A exactly once and
\* B never; a post_raw_breakpoint on T calls A never and B at most once, and
\* B has then been called exactly once since T came to the location, so that
\* a second hit at the same location calls B no further.
C3_ScenarioDelivery ==
  \A A, B \in 1..Len(envs), T \in Threads :
    Scenario(A, B, T) =>
      /\ (lastOp.op = "post_class_load" /\ ~hide[lastOp.thread])
           => CallsTo(A) = 1 /\ CallsTo(B) = 0
      /\ (lastOp.op = "post_raw_breakpoint" /\ lastOp.thread = T /\ lastOp.flag)
           => /\ CallsTo(A) = 0
              /\ CallsTo(B) <= 1
              /\ bp_count[T][B] = 1

\* A second breakpoint hit on T at the same location, in the scenario, that
\* called nobody.
C3_Witness ==
  /\ lastOp.op = "post_raw_breakpoint"
  /\ lastOp.flag
  /\ log = <<>>
  /\ \E A, B \in 1..Len(envs) :
       /\ Scenario(A, B, lastOp.thread)
       /\ bp_count[lastOp.thread][B] = 1
       /\ bp_posted[lastOp.thread][B]

-----------------------------------------------------------------------------
(* Claims about the event collectors *)

IsCollector(c) == c.kind \in CollectorKinds

\* The collector or mark that a destructor running on t destroys.
Top(t) == scopes[t][Len(scopes[t])]

Destroys(t) == lastOp'.op = "destroy_collector" /\ lastOp'.thread = t

\* The posts of the buffered records of c, oldest first.
RecordsOf(c) == [i \in 1..Len(c.buf) |-> Post(EventOf(c.kind), c.buf[i])]

\* C4 as stated: for every collector kind, a collector created while another
\* of its kind is installed and accumulating on the thread does not take over
\* the slot and buffers nothing.
C4_InnerSuppressed ==
  \A t \in Threads : \A j \in 1..Len(scopes[t]) :
    (IsCollector(scopes[t][j]) /\ scopes[t][j].outer # 0)
      => ~scopes[t][j].unset /\ scopes[t][j].buf = <<>>

\* C4 amended: a collector created while another of its kind is installed and
\* accumulating is suppressed only if it is a sampled collector or its event
\* is globally disabled; a VM object alloc or dynamic code collector whose
\* event is enabled takes over the slot, keeps the outer as its previous
\* collector and buffers the records of its own scope.  When the inner is
\* destroyed the outer is the occupant again, unchanged, and every destroyed
\* collector posts exactly the records it buffered itself.
C4_NestingByKind ==
  /\ [](\A t \in Threads : \A j \in 1..Len(scopes[t]) :
          LET c == scopes[t][j]
          IN  (IsCollector(c) /\ c.outer # 0) =>
                IF c.kind = "sampled_object_alloc" \/ ~c.born_enabled
                  THEN ~c.unset /\ c.buf = <<>> /\ slot[t][c.kind] # j
                  ELSE c.unset /\ c.prev = c.outer)
  /\ [][\A t \in Threads :
          Destroys(t) =>
            /\ Top(t).outer # 0 =>
                 /\ slot'[t][Top(t).kind] = Top(t).outer
                 /\ scopes'[t][Top(t).outer] = scopes[t][Top(t).outer]
            /\ posted' = IF Top(t).kind = "dynamic_code" \/ Top(t).enable
                           THEN RecordsOf(Top(t))
                           ELSE <<>>]_vars

\* A VM object alloc collector that took the slot over from an accumulating
\* outer collector and has buffered a record of its own.
C4_Witness ==
  \E t \in Threads : \E j \in 1..Len(scopes[t]) :
    /\ scopes[t][j].kind = "vm_object_alloc"
    /\ scopes[t][j].outer # 0
    /\ scopes[t][j].unset
    /\ slot[t]["vm_object_alloc"] = j
    /\ scopes[t][j].buf # <<>>
    /\ scopes[t][scopes[t][j].outer].buf # <<>>

\* C5: every allocation that a record function hands to a collector is
\* appended to its buffer, and when an enabled object allocation collector is
\* destroyed its post callback is called once per buffered object, in the
\* order of recording, and the buffer is gone with the collector.
C5_FlushInOrder ==
  [][\A t \in Threads :
       /\ (/\ lastOp'.op \in {"record_vm_internal_object_allocation",
                              "record_sampled_internal_object_allocation"}
           /\ lastOp'.thread = t
           /\ lastOp'.flag)
            => \E ck \in CollectorKinds, obj \in Objects :
                 /\ slot[t][ck] # 0
                 /\ scopes' = [scopes EXCEPT ![t][slot[t][ck]].buf = Append(@, obj)]
       /\ (/\ Destroys(t)
           /\ Top(t).kind \in {"vm_object_alloc", "sampled_object_alloc"}
           /\ Top(t).enable)
            => /\ Len(posted') = Len(Top(t).buf)
               /\ \A i \in 1..Len(Top(t).buf) :
                    posted'[i] = Post(EventOf(Top(t).kind), Top(t).buf[i])
               /\ scopes'[t] = SubSeq(scopes[t], 1, Len(scopes[t]) - 1)]_vars

\* The destruction of an object allocation collector that posted two
\* different objects.
C5_Witness ==
  /\ lastOp.op = "destroy_collector"
  /\ Len(posted) = 2
  /\ posted[1].kind \in {VMObjectAlloc, SampledObjectAlloc}
  /\ posted[1].obj # posted[2].obj

\* The last operation reported an allocation of kind ck on t, not of a
\* java.lang.Class, while no collector of that kind was installed.
ReportedWithoutCollector(t, ck) ==
  /\ lastOp.op = (IF ck = "vm_object_alloc"
                    THEN "record_vm_internal_object_allocation"
                    ELSE "record_sampled_internal_object_allocation")
  /\ lastOp.thread = t
  /\ lastOp.arg = 0
  /\ slot[t][ck] = 0

\* C6 as stated: an allocation reported while no collector of its kind is
\* installed is dispatched directly to the enabled environments, and dropped
\* only if the kind is disabled.
C6_DirectDispatch ==
  \A t \in Threads, ck \in {"vm_object_alloc", "sampled_object_alloc"} :
    (ReportedWithoutCollector(t, ck) /\ ~hide[t]) =>
      \A e \in 1..Len(envs) :
        (ets_is_enabled(t, e, EventOf(ck)) /\ has_callback(e, EventOf(ck)))
          => CallsTo(e) = 1

\* C6 amended: an allocation reported through a record function while no
\* collector of its kind is installed on the thread is dropped, whether or not
\* the kind is enabled: nothing is posted, no callback is invoked and no
\* state changes.
C6_DroppedWithoutCollector ==
  [][\A t \in Threads, ck \in {"vm_object_alloc", "sampled_object_alloc"} :
       (/\ lastOp'.op = (IF ck = "vm_object_alloc"
                           THEN "record_vm_internal_object_allocation"
                           ELSE "record_sampled_internal_object_allocation")
        /\ lastOp'.thread = t
        /\ slot[t][ck] = 0)
         => posted' = <<>> /\ log' = <<>> /\ UNCHANGED progVars]_vars

\* An allocation reported without a collector and dropped although an
\* environment has the event enabled and a callback for it.
C6_Witness ==
  \E t \in Threads, ck \in {"vm_object_alloc", "sampled_object_alloc"} :
    /\ ReportedWithoutCollector(t, ck)
    /\ ~hide[t]
    /\ log = <<>>
    /\ \E e \in 1..Len(envs) :
         ets_is_enabled(t, e, EventOf(ck)) /\ has_callback(e, EventOf(ck))

\* C7: when a collector is destroyed the slot of its kind holds the occupant
\* it held just before the collector was created, the other slots are as they
\* were, and a collector that never installed itself leaves every slot as it
\* is.
C7_SlotRestored ==
  [][\A t \in Threads :
       Destroys(t) =>
         /\ slot'[t][Top(t).kind] = Top(t).before
         /\ \A u \in Threads, ck \in CollectorKinds :
              (u # t \/ ck # Top(t).kind) => slot'[u][ck] = slot[u][ck]
         /\ ~Top(t).unset => slot' = slot]_vars

\* The destruction of an installed collector that gave the slot back to the
\* collector it had replaced.
C7_Witness ==
  /\ lastOp.op = "destroy_collector"
  /\ lastOp.flag
  /\ slot[lastOp.thread][lastOp.arg] # 0

\* C8: a collector created while its event was globally disabled never
\* occupies the slot, never sets _enable, never buffers a record, and its
\* destruction posts nothing, invokes no callback and defers nothing, even if
\* the event has been enabled since.
C8_BornDisabledInactive ==
  /\ [](\A t \in Threads : \A j \in 1..Len(scopes[t]) :
          LET c == scopes[t][j]
          IN  (IsCollector(c) /\ ~c.born_enabled) =>
                ~c.unset /\ ~c.enable /\ c.buf = <<>> /\ slot[t][c.kind] # j)
  /\ [][\A t \in Threads :
          (Destroys(t) /\ ~Top(t).born_enabled) =>
            posted' = <<>> /\ log' = <<>> /\ deferred' = deferred /\ slot' = slot]_vars

\* An allocation reported while the innermost collector of its kind was
\* created with the event disabled and the event is enabled now.
C8_Witness ==
  /\ lastOp.op \in {"record_vm_internal_object_allocation",
                    "record_sampled_internal_object_allocation",
                    "post_dynamic_code_generated_while_holding_locks"}
  /\ \E j \in 1..Len(scopes[lastOp.thread]) :
       LET c == scopes[lastOp.thread][j]
       IN  /\ IsCollector(c)
           /\ ~c.born_enabled
           /\ should_post(EventOf(c.kind))
           /\ lastOp.op = (CASE c.kind = "vm_object_alloc" ->
                                  "record_vm_internal_object_allocation"
                             [] c.kind = "sampled_object_alloc" ->
                                  "record_sampled_internal_object_allocation"
                             [] c.kind = "dynamic_code" ->
                                  "post_dynamic_code_generated_while_holding_locks")

-----------------------------------------------------------------------------
(* Claims about the phase gate *)

\* The phase that a phase-advance operation asks for.
PhaseAdvances ==
  {"enter_primordial_phase", "enter_start_phase", "enter_onload_phase",
   "enter_live_phase", "post_vm_death"}

TargetOf(op) ==
  CASE op = "enter_primordial_phase" -> "PRIMORDIAL"
    [] op = "enter_start_phase" -> "START"
    [] op = "enter_onload_phase" -> "ONLOAD"
    [] op = "enter_live_phase" -> "LIVE"
    [] op = "post_vm_death" -> "DEAD"

DeferredRecords == {Post(k, obj) : k \in {ClassUnload, DynamicCodeGenerated}, obj \in Objects}

C12_FlushedBeforeDead ==
  (lastOp.op = "post_vm_death" /\ phase = "DEAD") => deferred = <<>>

\* C12 amended: post_vm_death leaves the deferred queue as it is: the records
\* waiting when the phase becomes DEAD are still waiting afterwards.
C12_VmDeathKeepsQueue ==
  [][lastOp'.op = "post_vm_death" => deferred' = deferred]_vars

\* VM death has set the phase to DEAD with a record still in the queue.
C12_Witness ==
  /\ lastOp.op = "post_vm_death"
  /\ phase = "DEAD"
  /\ deferred # <<>>

\* C19 as stated: in every phase, post_class_unload and
\* post_dynamic_code_generated hand the event to the deferred queue and make
\* no direct post on the triggering thread.
C19_AlwaysDeferred ==
  [][lastOp'.op \in {"post_class_unload", "post_dynamic_code_generated"}
       => deferred' = Append(deferred, posted'[1]) /\ ~lastOp'.flag]_vars

\* C19 amended: post_class_unload hands the event to the deferred queue in
\* every phase; post_dynamic_code_generated does so in every phase but
\* PRIMORDIAL and START, where it posts the event itself, on the triggering
\* thread, and the queue is left alone.
C19_DeferredButEarlyDynamicCode ==
  [][/\ lastOp'.op = "post_class_unload"
        => deferred' = Append(deferred, posted'[1]) /\ log' = <<>>
     /\ lastOp'.op = "post_dynamic_code_generated"
        => IF phase \in {"PRIMORDIAL", "START"}
             THEN /\ deferred' = deferred
                  /\ lastOp'.flag
                  /\ log' = dynamic_code_calls(posted'[1].obj)
             ELSE /\ deferred' = Append(deferred, posted'[1])
                  /\ ~lastOp'.flag
                  /\ log' = <<>>]_vars

\* Dynamic code was posted directly in the START phase while a class unload
\* reported before it waits in the queue.
C19_Witness ==
  /\ lastOp.op = "post_dynamic_code_generated"
  /\ lastOp.flag
  /\ phase = "START"
  /\ deferred # <<>>
  /\ deferred[1].kind = ClassUnload

\* C13 as stated: a registration attempt after the phase has reached DEAD
\* fails: no environment is created or appended, the returned environment
\* pointer is null and an error code is returned.
C13_FailsWithNull ==
  [][(lastOp'.op = "get_jvmti_interface" /\ phase = "DEAD")
       => /\ envs' = envs
          /\ lastOp'.arg.penv = "null"
          /\ lastOp'.arg.rc # "JNI_OK"]_vars

\* C13 amended: a registration attempt after the phase has reached DEAD
\* fails: no environment is created or appended and an error code is
\* returned.  With a recognized version the code is JNI_EDETACHED and the
\* environment pointer is set to null; with an unrecognized version the code
\* is JNI_EVERSION and the pointer is not written.
C13_FailsAfterDead ==
  [][(lastOp'.op = "get_jvmti_interface" /\ phase = "DEAD")
       => /\ envs' = envs
          /\ ~lastOp'.flag
          /\ LET v == lastOp'.arg.version
                 known == \/ v[1] = 1 /\ v[2] \in {0, 1, 2}
                          \/ v[1] \in {9, 11} /\ v[2] = 0
                          \/ v[1] >= 13 /\ v[1] <= vm_major_version
             IN  IF known
                   THEN lastOp'.arg.rc = "JNI_EDETACHED" /\ lastOp'.arg.penv = "null"
                   ELSE lastOp'.arg.rc = "JNI_EVERSION" /\ lastOp'.arg.penv = "unwritten"]_vars

\* A registration attempt with a recognized version after VM death, with an
\* environment registered before: refused with JNI_EDETACHED.
C13_Witness ==
  /\ lastOp.op = "get_jvmti_interface"
  /\ phase = "DEAD"
  /\ Len(envs) = 1
  /\ lastOp.arg.rc = "JNI_EDETACHED"

\* The environments that a post of kind k on thread t (NoThread: an event
\* not filtered by thread) finds subscribed and with a callback entry.
Subscribed(k, t) ==
  {e \in 1..Len(envs) :
     /\ k \in envs[e].callbacks
     /\ \/ k \in envs[e].enabled
        \/ t # NoThread /\ k \in envs[e].tenabled[t]}

\* C15: a callback is invoked for an environment only if the event is
\* enabled for that environment (for the posting thread, where enablement is
\* per thread) and the environment's callback entry is not null; an
\* environment with a null entry is never called even when enabled, and the
\* other environments are still visited: before VM death a ClassLoad or
\* CompiledMethodLoad post on a thread that has its event state calls exactly
\* the environments that are enabled and have the entry.
C15_EnabledAndNonNull ==
  /\ \A i \in 1..Len(log) : log[i].env \in Subscribed(log[i].kind, log[i].thread)
  /\ (lastOp.op = "post_class_load" /\ phase # "DEAD" /\ has_state[lastOp.thread])
       => {log[i].env : i \in 1..Len(log)} = Subscribed(ClassLoad, lastOp.thread)
  /\ (lastOp.op = "post_compiled_method_load" /\ phase # "DEAD")
       => {log[i].env : i \in 1..Len(log)} = Subscribed(CompiledMethodLoad, NoThread)

\* A ClassLoad post on t1 with both environments enabled for t1, the first
\* without a callback entry: only the second was called.
C15_Witness ==
  /\ lastOp.op = "post_class_load"
  /\ lastOp.thread = "t1"
  /\ Len(envs) = 2
  /\ ClassLoad \in envs[1].enabled \cup envs[1].tenabled["t1"]
  /\ ClassLoad \notin envs[1].callbacks
  /\ ClassLoad \in envs[2].tenabled["t1"]
  /\ Len(log) = 1
  /\ log[1].env = 2

\* The event kind that each post operation reports.
PostKind ==
  [op \in {"post_thread_start", "post_method_entry", "post_exception_throw",
           "post_single_step", "post_class_load"} |->
     CASE op = "post_thread_start" -> ThreadStart
       [] op = "post_method_entry" -> MethodEntry
       [] op = "post_exception_throw" -> Exception
       [] op = "post_single_step" -> SingleStep
       [] op = "post_class_load" -> ClassLoad]

\* A post of an event kind that no environment has enabled.
QuietPost ==
  /\ lastOp'.op \in DOMAIN PostKind
  /\ \A e \in 1..Len(envs) :
       /\ PostKind[lastOp'.op] \notin envs[e].enabled
       /\ \A t \in Threads : PostKind[lastOp'.op] \notin envs[e].tenabled[t]

C16_ExceptionStateRestored ==
  [][lastOp'.op = "JvmtiEventMark_dtor"
       => LET t == lastOp'.thread
          IN  has_state'[t] =>
                exc_state'[t] = frames[t][Len(frames[t])].saved_exception_state]_vars

\* A mark's scope exits inside a callback of an outer mark (a nested post)
\* after its own callback had changed the exception state.
C16_Witness ==
  /\ lastOp.op = "JvmtiEventMark_dtor"
  /\ lastOp.flag
  /\ Len(frames["t1"]) >= 3
  /\ exc_state["t1"] = ES_DETECTED

\* The marks open on a thread.
Marks(t) == {i \in 1..Len(frames[t]) : frames[t][i].kind = "mark"}

\* C17: the safe-call transitions nest with stack discipline.  A thread is
\* native exactly while a callback runs, that is while a transition is its
\* innermost open scope; the handle-block depth is the number of marks open;
\* and when a transition or a mark is left, the thread state, and for a mark
\* the handle-block depth, are what they were when it was entered.
C17_TransitionsNest ==
  /\ [](\A t \in Threads :
         /\ thread_state[t] = "_thread_in_native"
              <=> (frames[t] # <<>> /\ frames[t][Len(frames[t])].kind \in {"jet", "tet"})
         /\ handle_depth[t] = Cardinality(Marks(t)))
  /\ [][lastOp'.op \in {"JvmtiEventMark_dtor", "JvmtiJavaThreadEventTransition_dtor",
                        "JvmtiThreadEventTransition_dtor"}
          => LET t == lastOp'.thread
                 f == frames[t][Len(frames[t])]
             IN  /\ thread_state'[t] = f.at_state
                 /\ handle_depth'[t] = f.at_depth]_vars

\* A post made from Java code with the general transition has returned: the
\* thread is in Java again and no handle block is left.
C17_Witness ==
  /\ lastOp.op = "JvmtiEventMark_dtor"
  /\ frames["t1"] = <<>>
  /\ thread_state["t1"] = "_thread_in_Java"
  /\ handle_depth["t1"] = 0

ProbeKind == [op \in {"jni_GetField_probe", "jni_SetField_probe"} |->
                IF op = "jni_GetField_probe" THEN FieldAccess ELSE FieldModification]

\* C20 as stated: the enablement seen on the hot path is never stale: once a
\* field-watch change has completed, every later probe on any thread, if the
\* thread has a Java frame, goes on to the post exactly when the counter is
\* positive.
C20_NeverStale ==
  [][(lastOp'.op \in DOMAIN ProbeKind /\ lastOp'.arg = 1)
       => lastOp'.flag = (field_count[ProbeKind[lastOp'.op]] > 0)]_vars

\* C20 amended: a probe goes on to the post exactly when the value that its
\* thread reads from the counter is positive and the thread has a Java
\* frame; the thread that changed a watch reads the new value, another
\* thread may still read an older one, so that a probe may miss a needed
\* post or make an unneeded one; no callback is invoked without the post;
\* and per-thread enablement is a subset of global enablement.
C20_ProbeFollowsValueRead ==
  /\ [][/\ lastOp'.op \in DOMAIN ProbeKind
           => /\ lastOp'.flag =
                   (lastOp'.arg = 1 /\ field_seen[lastOp'.thread][ProbeKind[lastOp'.op]] > 0)
              /\ log' # <<>> => lastOp'.flag
        /\ lastOp'.op = "change_field_watch"
           => \E k \in FieldKinds :
                /\ field_count'[k] # field_count[k]
                /\ field_seen'[lastOp'.thread][k] = field_count'[k]]_vars
  /\ [](\A t \in Threads, k \in Kinds : state_is_enabled(t, k) => should_post(k))

\* t2 read a field through JNI, with a Java frame, after a watch was set by
\* t1 and before the new count was visible to t2: the probe made no post.
C20_Witness ==
  /\ lastOp.op = "jni_GetField_probe"
  /\ lastOp.thread = "t2"
  /\ lastOp.arg = 1
  /\ ~lastOp.flag
  /\ field_count[FieldAccess] > 0
  /\ Len(envs) = 1
  /\ FieldAccess \in envs[1].enabled

-----------------------------------------------------------------------------
(* Exceptions of up-called and agent-side code *)

\* Module operations and event callbacks on both threads: an up-call may
\* return normally or raise, a callback may raise while it runs in native.
NextModule ==
  \/ \E t \in Threads, initialized \in BOOLEAN, raised \in {NoException} \cup Throwables :
       \/ add_default_read_edges(t, initialized, raised)
       \/ add_module_reads(t, initialized, raised)
       \/ add_module_exports(t, initialized, raised)
       \/ add_module_opens(t, initialized, raised)
       \/ add_module_uses(t, initialized, raised)
       \/ add_module_provides(t, initialized, raised)
  \/ \E t \in Threads :
       \/ JvmtiEventMark_ctor(t)
       \/ JvmtiEventMark_dtor(t)
       \/ JvmtiJavaThreadEventTransition_ctor(t)
       \/ JvmtiJavaThreadEventTransition_dtor(t)
       \/ \E ex_name \in Throwables : callback_throws(t, ex_name)

SpecModule == InitLive /\ [][NextModule]_vars

-----------------------------------------------------------------------------
(* Collector flushes with records that cannot be posted *)

\* VM object allocation collectors on t1 whose buffers may hold handles that
\* resolve to null, under changing subscriptions.
NextFlush ==
  \/ \E cb \in CallbackTables : get_jvmti_interface(JVMTI_VERSION_1_2, {}, cb)
  \/ \E e \in EnvIds, on \in BOOLEAN : set_event_enabled(e, VMObjectAlloc, NoThread, on)
  \/ \E on \in BOOLEAN : set_hide("t1", on)
  \/ create_collector("t1", "vm_object_alloc", TRUE)
  \/ destroy_collector("t1")
  \/ \E obj \in Objects \cup {NullObject} :
       record_vm_internal_object_allocation("t1", obj, FALSE)

SpecFlush == InitLive /\ [][NextFlush]_vars

\* The callbacks of a flush of the records buf of kind k on thread t: for
\* each record whose object is not null, in buffer order, one callback to
\* each environment of sel that has the callback.
FlushCalls(buf, sel, k, t) ==
  LET live == SelectSeq(buf, LAMBDA obj : obj # NullObject)
      recv == SelectSeq(sel, LAMBDA e : k \in envs[e].callbacks)
  IN  Flatten([i \in 1..Len(live) |->
                 [j \in 1..Len(recv) |-> Callback(recv[j], k, t, live[i])]])

\* C22: in the flush of a VM object allocation collector a record that cannot
\* be posted (its object resolves to null) is dropped alone: the records
\* before and after it are posted in buffer order, and the collector's scope
\* completes: it leaves the stack and gives the slot back.
C22_BadRecordDroppedAlone ==
  [][\A t \in Threads :
       (Destroys(t) /\ Top(t).kind = "vm_object_alloc" /\ Top(t).enable) =>
         LET k == VMObjectAlloc
             sel == SelectSeq(JvmtiEnvIterator, LAMBDA e : k \in envs[e].enabled)
         IN  /\ Len(posted') = Len(Top(t).buf)
             /\ log' = IF hide[t] THEN <<>> ELSE FlushCalls(Top(t).buf, sel, k, t)
             /\ scopes'[t] = SubSeq(scopes[t], 1, Len(scopes[t]) - 1)
             /\ slot'[t][Top(t).kind] = Top(t).before]_vars

\* A flush on t1 of two records, the first with a null object: only the
\* second was delivered.
C22_Witness ==
  /\ lastOp.op = "destroy_collector"
  /\ lastOp.arg = "vm_object_alloc"
  /\ Len(posted) = 2
  /\ posted[1].obj = NullObject
  /\ posted[2].obj # NullObject
  /\ Len(log) = 1
  /\ log[1].arg = posted[2].obj

-----------------------------------------------------------------------------
(* Events whose minimum phase is ONLOAD *)

\* The runtime goes through its phases while agents register and subscribe
\* when they can, and classes load, threads start and compiled methods are
\* unloaded in every phase.
NextOnload ==
  \/ enter_start_phase
  \/ enter_onload_phase
  \/ enter_live_phase
  \/ post_vm_death
  \/ \E cb \in CallbackTables : get_jvmti_interface(JVMTI_VERSION_1_2, {}, cb)
  \/ \E e \in EnvIds :
       \E k \in {ClassLoad, ThreadStart, CompiledMethodUnload} :
         set_event_enabled(e, k, NoThread, TRUE)
  \/ post_class_load("t2")
  \/ post_thread_start("t2")
  \/ post_compiled_method_unload(1)

SpecOnload == InitPhase /\ [][NextOnload]_vars

\* The event that each of these posts reports.
OnloadKind ==
  [op \in {"post_class_load", "post_thread_start", "post_compiled_method_unload"} |->
     CASE op = "post_class_load" -> ClassLoad
       [] op = "post_thread_start" -> ThreadStart
       [] op = "post_compiled_method_unload" -> CompiledMethodUnload]

-----------------------------------------------------------------------------
(* Callbacks and locks *)

\* Both threads leave methods and yield continuations while an agent
\* subscribes to MethodExit and FramePop; a callback may take any time.
NextLock ==
  \/ envs = <<>> /\ get_jvmti_interface(JVMTI_VERSION_1_2, {}, Kinds)
  \/ \E k \in {MethodExit, FramePop}, on \in BOOLEAN : set_event_enabled(1, k, NoThread, on)
  \/ \E t \in Threads :
       \/ post_method_exit_inner(t)
       \/ method_exit_loop(t)
       \/ \E is_frame_pop \in BOOLEAN : frame_pop_loop(t, is_frame_pop)
       \/ exit_callback_returns(t)
       \/ clear_frame_pop_lock(t)
       \/ clear_frame_pop_unlock(t)
       \/ \E clears \in BOOLEAN : continuation_yield_cleanup(t, clears)

SpecLock == InitLive /\ [][NextLock]_vars

\* The runtime's own steps of t2 are taken when they can be, every thread
\* leaves the block that holds the lock, and the callbacks of t2 return; a
\* callback on t1 need not ever return.
SpecLockLive ==
  /\ SpecLock
  /\ WF_vars(method_exit_loop("t2"))
  /\ WF_vars(\E is_frame_pop \in BOOLEAN : frame_pop_loop("t2", is_frame_pop))
  /\ WF_vars(exit_callback_returns("t2"))
  /\ SF_vars(clear_frame_pop_lock("t2"))
  /\ \A t \in Threads : WF_vars(clear_frame_pop_unlock(t))

\* C24: no post invokes a callback while its thread holds
\* JvmtiThreadState_lock, so that a callback that never returns on t1 does
\* not block t2: a post that t2 has begun comes to its end.
C24_NoCallbackUnderLock ==
  /\ [](\A t \in Threads : exit_pc[t] \in InCallback => lock_owner # t)
  /\ [](\A t \in Threads : (lock_owner = t) = (exit_pc[t] = "locked"))
  /\ (exit_pc["t2"] # "idle") ~> (exit_pc["t2"] = "idle")

\* t2 holds the lock to remove a frame pop request while t1 is in a FramePop
\* callback.
C24_Witness ==
  /\ exit_pc["t1"] = "in_FramePop"
  /\ exit_pc["t2"] = "locked"
  /\ lock_owner = "t2"

-----------------------------------------------------------------------------
(* The cached stack depth *)

\* Methods are entered on t1 in interp-only mode, exceptions are thrown and
\* unwound, continuations yield, and the thread hides its events at times.
NextDepth ==
  \/ envs = <<>> /\ get_jvmti_interface(JVMTI_VERSION_1_2, {}, Kinds)
  \/ \E k \in {MethodEntry, Exception}, on \in BOOLEAN : set_event_enabled(1, k, NoThread, on)
  \/ \E on \in BOOLEAN : set_hide("t1", on)
  \/ post_method_entry("t1", FALSE)
  \/ post_exception_throw("t1")
  \/ \E in_handler_frame \in BOOLEAN : notice_unwind_due_to_exception("t1", in_handler_frame)
  \/ \E clears \in BOOLEAN : continuation_yield_cleanup("t1", clears)

SpecDepth == InitLive /\ [][NextDepth]_vars

DepthOps == {"post_exception_throw", "notice_unwind_due_to_exception",
             "continuation_yield_cleanup"}

-----------------------------------------------------------------------------
(* The two VMStart posts *)

\* Agents register with or without the early-vmstart capability and
\* subscribe to VMStart, and the startup makes each of its two posts once.
NextStart ==
  \/ enter_start_phase
  \/ enter_onload_phase
  \/ enter_live_phase
  \/ \E caps \in {{}, {"can_generate_early_vmstart"}}, cb \in CallbackTables :
       get_jvmti_interface(JVMTI_VERSION_1_2, caps, cb)
  \/ \E e \in EnvIds, on \in BOOLEAN : set_event_enabled(e, VMStart, NoThread, on)
  \/ post_early_vm_start("t1")
  \/ post_vm_start("t1")

SpecStart == InitPhase /\ [][NextStart]_vars

\* C26: across post_early_vm_start and post_vm_start every environment that
\* has VMStart enabled, and the callback, is called exactly once: an
\* early-vmstart environment by post_early_vm_start only, any other by
\* post_vm_start only, and no environment by both.
C26_VmStartOnce ==
  /\ [][lastOp'.op \in {"post_early_vm_start", "post_vm_start"} =>
          LET early == lastOp'.op = "post_early_vm_start"
          IN  \A e \in 1..Len(envs) :
                CallsTo(e)' = IF /\ early_vmstart_env(e) = early
                                 /\ VMStart \in envs[e].enabled
                                 /\ VMStart \in envs[e].callbacks
                                THEN 1 ELSE 0]_vars
  /\ [](\A e \in EnvIds : vm_start_count[e] <= 1)

\* Both posts have run with an early and a normal environment subscribed:
\* each was called once, the early one first.
C26_Witness ==
  /\ vm_start_calls = {"post_early_vm_start", "post_vm_start"}
  /\ lastOp.op = "post_vm_start"
  /\ Len(envs) = 2
  /\ early_vmstart_env(1)
  /\ ~early_vmstart_env(2)
  /\ vm_start_count = [e \in EnvIds |-> 1]
  /\ Len(log) = 1
  /\ log[1].env = 2


\* C27: get_jvmti_interface with a supported version creates an environment
\* and returns JNI_OK exactly when the phase is ONLOAD or LIVE; in every other
\* phase it creates none, sets the returned pointer to null and returns
\* JNI_EDETACHED.  With an unsupported version it returns JNI_EVERSION in
\* every phase, creates no environment and does not write the pointer.
C27_InterfaceByVersionAndPhase ==
  [][lastOp'.op = "get_jvmti_interface" =>
       LET v == lastOp'.arg.version
           supported == \/ v[1] = 1 /\ v[2] <= 2
                        \/ v[1] \in {9, 11} /\ v[2] = 0
                        \/ v[1] >= 13 /\ v[1] <= vm_major_version
           r == [rc |-> lastOp'.arg.rc, penv |-> lastOp'.arg.penv]
       IN  /\ supported /\ phase \in {"ONLOAD", "LIVE"} =>
                /\ r = [rc |-> "JNI_OK", penv |-> "env"]
                /\ Len(envs') = Len(envs) + 1
                /\ SubSeq(envs', 1, Len(envs)) = envs
           /\ supported /\ phase \notin {"ONLOAD", "LIVE"} =>
                /\ r = [rc |-> "JNI_EDETACHED", penv |-> "null"]
                /\ envs' = envs
           /\ ~supported =>
                /\ r = [rc |-> "JNI_EVERSION", penv |-> "unwritten"]
                /\ envs' = envs]_vars

\* A registration attempt with a supported version in the START phase:
\* refused with JNI_EDETACHED and a null pointer, no environment created.
C27_Witness ==
  /\ lastOp.op = "get_jvmti_interface"
  /\ phase = "START"
  /\ lastOp.arg.version = <<21, 0>>
  /\ lastOp.arg.rc = "JNI_EDETACHED"
  /\ lastOp.arg.penv = "null"
  /\ envs = <<>>

-----------------------------------------------------------------------------
(* The class-file-load hook: who is called, with which bytes, and the cache *)

\* Agents that can and cannot retransform subscribe to the hook; a class is
\* loaded, redefined and retransformed on t1, whose callbacks return new
\* bytes or not, and t1 hides its events at times.
NextHook ==
  \/ \E caps \in {{}, {"can_retransform_classes"}}, cb \in CallbackTables :
       get_jvmti_interface(JVMTI_VERSION_1_2, caps, cb)
  \/ \E e \in EnvIds, on \in BOOLEAN : set_event_enabled(e, ClassFileLoadHook, NoThread, on)
  \/ \E on \in BOOLEAN : set_hide("t1", on)
  \/ \E lk \in LoadKinds, new_data \in [EnvIds -> BOOLEAN] :
       post_class_file_load_hook("t1", lk, new_data)

SpecHook == InitLive /\ [][NextHook]_vars

HookPosted == lastOp.op = "post_class_file_load_hook"

\* The environments that have the hook enabled and a callback for it.
HookSubscribers ==
  {e \in 1..Len(envs) : /\ ClassFileLoadHook \in envs[e].enabled
                        /\ ClassFileLoadHook \in envs[e].callbacks}

BytesAfter(n) ==
  LET returned == {j \in 1..n : lastOp.arg.new_data[log[j].env]}
  IN  IF returned = {}
        THEN OriginalBytes
        ELSE agent_bytes(log[CHOOSE j \in returned : \A k \in returned : k <= j].env)

\* C29: the class bytes are chained through the agents: each callback
\* receives the bytes returned by the most recent earlier callback of the
\* post that returned new data, or the caller's bytes if none did; on return
\* the caller's data are the last bytes returned; and the result is true
\* exactly if at least one callback returned new data.
C29_BytesChained ==
  HookPosted =>
    /\ \A i \in 1..Len(log) : log[i].arg = BytesAfter(i - 1)
    /\ class_data = BytesAfter(Len(log))
    /\ lastOp.flag = (\E j \in 1..Len(log) : lastOp.arg.new_data[log[j].env])

\* A load in which both subscribers returned new data: the second received
\* the bytes of the first, and the caller got the bytes of the second.
C29_Witness ==
  /\ HookPosted
  /\ Len(log) = 2
  /\ lastOp.arg.new_data[log[1].env]
  /\ lastOp.arg.new_data[log[2].env]
  /\ log[1].arg = OriginalBytes
  /\ log[2].arg = agent_bytes(log[1].env)
  /\ class_data = agent_bytes(log[2].env)
  /\ lastOp.flag

\* C30: the cache of original class-file bytes is set at most once: a post
\* sets it only while it is null, when an environment that can retransform
\* returns new data, to the bytes that were passed to the first such
\* environment; a cache that is not null is never overwritten; environments
\* that cannot retransform never cause caching.
C30_CachedOnce ==
  [][lastOp'.op = "post_class_file_load_hook" =>
       LET causes == {i \in 1..Len(log') :
                        /\ is_retransformable(log'[i].env)
                        /\ lastOp'.arg.new_data[log'[i].env]}
       IN  IF cached_class_file # <<>> \/ causes = {}
             THEN cached_class_file' = cached_class_file
             ELSE cached_class_file' =
                    <<log'[CHOOSE i \in causes : \A k \in causes : i <= k].arg>>]_vars

\* The cache holds the bytes that an agent which cannot retransform had
\* returned and that were passed to the retransforming agent which then
\* rewrote them; a later retransform with new data has left the cache as it
\* was.
C30_Witness ==
  /\ HookPosted
  /\ lastOp.arg.load_kind = "retransform"
  /\ Len(envs) = 2
  /\ is_retransformable(1)
  /\ ~is_retransformable(2)
  /\ cached_class_file = <<agent_bytes(2)>>
  /\ lastOp.flag
  /\ class_data = agent_bytes(1)

-----------------------------------------------------------------------------
(* The class-file-load hook: the deallocation of the agents' buffers *)

\* The callbacks of the post that returned new data, by their place in the log.
HookReturned == {i \in 1..Len(log) : lastOp.arg.new_data[log[i].env]}

\* The deallocations of the post, in order.
HookFreed == lastOp.arg.deallocated

\* C31: every buffer an agent returns from the class-file-load hook is
\* deallocated exactly once, through the environment that returned it: as the
\* i-th deallocation of the post for the i-th buffer returned, that is, when
\* the next agent replaces it or, for the last one, in copy_modified_data
\* after it has become the caller's data; and the caller's original bytes are
\* never deallocated.
C31_BufferFreedOnce ==
  HookPosted =>
    /\ \A i \in HookReturned :
         /\ Cardinality({j \in 1..Len(HookFreed) :
                           HookFreed[j].data = agent_bytes(log[i].env)}) = 1
         /\ \A j \in 1..Len(HookFreed) :
              HookFreed[j].data = agent_bytes(log[i].env)
                => /\ HookFreed[j].env = log[i].env
                   /\ j = Cardinality({k \in HookReturned : k <= i})
    /\ Len(HookFreed) = Cardinality(HookReturned)
    /\ \A j \in 1..Len(HookFreed) : HookFreed[j].data # OriginalBytes
    /\ HookFreed # <<>> => HookFreed[Len(HookFreed)].data = class_data

\* A load in which both subscribers returned new data: the buffer of the
\* first was deallocated through it when the second replaced it, the buffer
\* of the second at the end.
C31_Witness ==
  /\ HookPosted
  /\ Len(log) = 2
  /\ HookReturned = {1, 2}
  /\ HookFreed = <<Deallocate(log[1].env, agent_bytes(log[1].env)),
                   Deallocate(log[2].env, agent_bytes(log[2].env))>>
  /\ class_data = agent_bytes(log[2].env)

-----------------------------------------------------------------------------
(* VM death, step by step *)

RECURSIVE Flatten_calls(_)
Flatten_calls(ss) == IF ss = <<>> THEN <<>> ELSE Head(ss) \o Flatten_calls(Tail(ss))

\* JvmtiExport::post_object_free(env, objects): nothing for a thread that
\* hides its events or an environment that has the event disabled; else the
\* callback, if there is one, is called once per tag.
post_object_free(e, t, objects) ==
  IF hide[t] \/ ~env_is_enabled(e, ObjectFree) \/ ~has_callback(e, ObjectFree)
    THEN <<>>
    ELSE [i \in 1..Len(objects) |-> Callback(e, ObjectFree, t, objects[i])]

\* JvmtiTagMap::flush_all_object_free_events: the pending tags are posted to
\* every environment, and nothing is pending afterwards.
flush_all_object_free_events(t) ==
  Flatten_calls([i \in 1..Len(JvmtiEnvIterator) |->
                   post_object_free(JvmtiEnvIterator[i], t, object_free_events)])

\* The collector finds a tagged object dead: its ObjectFree event is pending.
object_freed(tag) ==
  /\ Len(object_free_events) < MaxFree
  /\ object_free_events' = Append(object_free_events, tag)
  /\ log' = <<>>
  /\ posted' = <<>>
  /\ lastOp' = Op("object_freed", NoThread, tag, FALSE)
  /\ UNCHANGED <<excVars, callVars, fieldVars, modVars, startVars, hookVars, lockVars, popVars, lastVars,
                 death_pc, death_i, phase, regVars, threadVars, locVars, histVars, collVars>>

\* JvmtiExport::post_vm_death enters: the pending object-free events are
\* flushed, and the loop over the environments begins.
post_vm_death_flush(t) ==
  /\ death_pc = "idle"
  /\ log' = flush_all_object_free_events(t)
  /\ object_free_events' = <<>>
  /\ death_pc' = "loop"
  /\ death_i' = 1
  /\ posted' = <<>>
  /\ lastOp' = Op("post_vm_death_flush", t, 0, FALSE)
  /\ UNCHANGED <<excVars, callVars, fieldVars, modVars, startVars, hookVars, lockVars, popVars, lastVars,
                 phase, regVars, threadVars, locVars, histVars, collVars>>

\* Mutant: the phase is set to DEAD as soon as the first environment has
\* been visited.
post_vm_death_loop_dying(t) ==
  /\ death_pc = "loop"
  /\ death_i <= Len(envs)
  /\ log' = IF env_is_enabled(death_i, VMDeath)
              THEN Invoke(<<death_i>>, VMDeath, t, 0)
              ELSE <<>>
  /\ death_i' = death_i + 1
  /\ set_phase("DEAD")
  /\ posted' = <<>>
  /\ lastOp' = Op("post_vm_death_loop", t, death_i, FALSE)
  /\ UNCHANGED <<excVars, callVars, fieldVars, modVars, startVars, hookVars, lockVars, popVars, lastVars,
                 object_free_events, death_pc, regVars, threadVars, locVars,
                 histVars, collVars>>

\* JvmtiExport::post_vm_death, one round of the loop: the environment is
\* called if it has VMDeath enabled and a callback for it.
post_vm_death_loop(t) ==
  /\ death_pc = "loop"
  /\ death_i <= Len(envs)
  /\ log' = IF env_is_enabled(death_i, VMDeath)
              THEN Invoke(<<death_i>>, VMDeath, t, 0)
              ELSE <<>>
  /\ death_i' = death_i + 1
  /\ posted' = <<>>
  /\ lastOp' = Op("post_vm_death_loop", t, death_i, FALSE)
  /\ UNCHANGED <<excVars, callVars, fieldVars, modVars, startVars, hookVars, lockVars, popVars, lastVars,
                 object_free_events, death_pc, phase, regVars, threadVars, locVars,
                 histVars, collVars>>

\* JvmtiExport::post_vm_death after the loop: JvmtiEnvBase::set_phase(
\* JVMTI_PHASE_DEAD) and JvmtiEventController::vm_death.
post_vm_death_set_phase(t) ==
  /\ death_pc = "loop"
  /\ death_i > Len(envs)
  /\ set_phase("DEAD")
  /\ death_pc' = "idle"
  /\ log' = <<>>
  /\ posted' = <<>>
  /\ lastOp' = Op("post_vm_death_set_phase", t, 0, FALSE)
  /\ UNCHANGED <<excVars, callVars, fieldVars, modVars, startVars, hookVars, lockVars, popVars, lastVars,
                 object_free_events, death_i, regVars, threadVars, locVars,
                 histVars, collVars>>

\* The VM comes up, agents register and subscribe to VMDeath and ObjectFree
\* at any time, tagged objects die, and thread t1 runs post_vm_death, whose
\* callbacks are interleaved with all that.
NextDeath ==
  \/ enter_start_phase
  \/ enter_onload_phase
  \/ enter_live_phase
  \/ \E cb \in CallbackTables : get_jvmti_interface(JVMTI_VERSION_1_2, {}, cb)
  \/ \E e \in EnvIds, on \in BOOLEAN : set_event_enabled(e, VMDeath, NoThread, on)
  \/ \E e \in EnvIds : set_event_enabled(e, ObjectFree, NoThread, TRUE)
  \/ object_freed(1)
  \/ post_vm_death_flush("t1")
  \/ post_vm_death_loop("t1")
  \/ post_vm_death_set_phase("t1")

SpecDeath == InitPhase /\ [][NextDeath]_vars

\* The exiting thread keeps running: the loop and the end of post_vm_death
\* are taken when they can be.
SpecDeathLive ==
  /\ SpecDeath
  /\ WF_vars(post_vm_death_loop("t1"))
  /\ WF_vars(post_vm_death_set_phase("t1"))

DeathCalls(calls) == {i \in 1..Len(calls) : calls[i].kind = VMDeath}

-----------------------------------------------------------------------------
(* The life of an exception: thrown, unwound, caught or cleared *)

\* Agents subscribe to Exception and ExceptionCatch; exceptions are thrown on
\* both threads, frames are unwound in and outside the handler frame, and
\* the runtime clears the exception state of a thread.
NextExc ==
  \/ \E cb \in CallbackTables : get_jvmti_interface(JVMTI_VERSION_1_2, {}, cb)
  \/ \E e \in EnvIds, on \in BOOLEAN : set_event_enabled(e, Exception, NoThread, on)
  \/ \E e \in EnvIds : set_event_enabled(e, ExceptionCatch, NoThread, TRUE)
  \/ \E on \in BOOLEAN : set_hide("t1", on)
  \/ \E t \in Threads : post_exception_throw(t)
  \/ \E t \in Threads, in_handler_frame \in BOOLEAN :
       notice_unwind_due_to_exception(t, in_handler_frame)
  \/ \E t \in Threads : clear_detected_exception(t)

SpecExc == InitLive /\ [][NextExc]_vars

CallsOfKind(calls, k) == {i \in 1..Len(calls) : calls[i].kind = k}

-----------------------------------------------------------------------------
(* Method exit and frame pop requests *)

\* Agents subscribe to MethodEntry, MethodExit and FramePop; t1 enters and
\* leaves methods, hiding its events at times; the agents ask to be notified
\* of the pop of t1's current frame while t1 is outside the method exit, and
\* take all their requests back at any time.
NextPop ==
  \/ get_jvmti_interface(JVMTI_VERSION_1_2, {}, Kinds)
  \/ set_event_enabled(1, MethodEntry, NoThread, TRUE)
  \/ set_event_enabled(1, MethodExit, NoThread, TRUE)
  \/ \E e \in EnvIds, on \in BOOLEAN : set_event_enabled(e, FramePop, NoThread, on)
  \/ \E on \in BOOLEAN : set_hide("t1", on)
  \/ post_method_entry("t1", FALSE)
  \/ \E e \in EnvIds : NotifyFramePop("t1", e, cur_stack_depth["t1"])
  \/ \E e \in EnvIds : ClearAllFramePops("t1", e)
  \/ post_method_exit_inner("t1")
  \/ method_exit_loop("t1")
  \/ IF exit_i["t1"] <= Len(envs)
       THEN frame_pop_loop("t1", ets_is_frame_pop("t1", exit_i["t1"]))
       ELSE frame_pop_loop("t1", FALSE)
  \/ exit_callback_returns("t1")
  \/ clear_frame_pop_lock("t1")
  \/ clear_frame_pop_unlock("t1")

SpecPop == InitLive /\ [][NextPop]_vars

\* The positions of a thread in the second loop of post_method_exit_inner.
InFramePopLoop == {"FramePop_loop", "in_FramePop", "clear_frame_pop", "locked"}

\* Thread t returns from post_method_exit_inner in this step.
ExitReturns(t) ==
  /\ lastOp'.thread = t
  /\ lastOp'.op \in {"post_method_exit_inner", "frame_pop_loop"}
  /\ exit_pc'[t] = "idle"

\* The frame pop requests for the frame that t is leaving are gone.
NoRequestLeft(t) ==
  \A e \in 1..Len(envs) : cur_stack_depth[t] \notin frame_pops'[t][e]

\* The order and the number of the callbacks of one run of
\* post_method_exit_inner on t.
ExitOrder(t) ==
  /\ (CallsOfKind(log', MethodExit) # {} /\ lastOp'.thread = t) =>
       exit_pc[t] = "MethodExit_loop"
  /\ exit_pc[t] \in InFramePopLoop =>
       /\ exit_pc'[t] \in InFramePopLoop \cup {"idle"}
       /\ exit_pc'[t] \in InFramePopLoop => exit_i'[t] >= exit_i[t]
  /\ (CallsOfKind(log', FramePop) # {} /\ lastOp'.thread = t) =>
       /\ exit_pc[t] = "FramePop_loop"
       /\ exit_pc'[t] = "in_FramePop"
       /\ Len(log') = 1
       /\ log'[1].env = exit_i[t]
       /\ exit_i'[t] = exit_i[t]
       /\ ets_is_frame_pop(t, exit_i[t])
  /\ (exit_pc[t] = "locked" /\ exit_pc'[t] # "locked") =>
       /\ exit_i'[t] = exit_i[t] + 1
       /\ cur_stack_depth[t] \notin frame_pops'[t][exit_i[t]]

-----------------------------------------------------------------------------
(* Posts on a thread that hides its events *)

\* Mutant: the post does not ask whether the thread hides its events.
post_thread_event_unhidden(name, t, k) ==
  LET returns == ~get_jvmti_thread_state(t)
  IN  /\ resolve_state(t)
      /\ log' = IF returns
                  THEN <<>>
                  ELSE Invoke(SelectSeq(JvmtiEnvIterator, LAMBDA e : ets_is_enabled(t, e, k)),
                              k, t, 0)
      /\ posted' = <<>>
      /\ lastOp' = Op(name, t, 0, ~returns)
      /\ UNCHANGED <<extVars, phase, regVars, vthread_mounted, hide, locVars, histVars,
                     collVars>>

\* The common shape of the posts of thread-filtered events: return for a
\* thread without state, return for a thread that hides its events, then
\* the loop over the environment-thread states that have the event enabled.
post_thread_event(name, t, k) ==
  LET returns == ~get_jvmti_thread_state(t) \/ hide[t]
  IN  /\ resolve_state(t)
      /\ log' = IF returns
                  THEN <<>>
                  ELSE Invoke(SelectSeq(JvmtiEnvIterator, LAMBDA e : ets_is_enabled(t, e, k)),
                              k, t, 0)
      /\ posted' = <<>>
      /\ lastOp' = Op(name, t, 0, ~returns)
      /\ UNCHANGED <<extVars, phase, regVars, vthread_mounted, hide, locVars, histVars,
                     collVars>>

\* JvmtiExport::post_class_prepare: as post_class_load, for ClassPrepare.
post_class_prepare(t) ==
  /\ resolve_state(t)
  /\ log' = IF \/ PhaseRank(phase) < PhaseRank("PRIMORDIAL")
               \/ ~get_jvmti_thread_state(t)
               \/ hide[t]
              THEN <<>>
              ELSE Invoke(SelectSeq(JvmtiEnvIterator,
                                    LAMBDA e : /\ ets_is_enabled(t, e, ClassPrepare)
                                               /\ env_phase(e) # "PRIMORDIAL"),
                          ClassPrepare, t, 0)
  /\ posted' = <<>>
  /\ lastOp' = Op("post_class_prepare", t, 0, FALSE)
  /\ UNCHANGED <<extVars, phase, regVars, vthread_mounted, hide, locVars, histVars, collVars>>

\* JvmtiExport::post_field_access and post_field_modification
post_field_access(t) == post_thread_event("post_field_access", t, FieldAccess)

post_field_modification(t) ==
  post_thread_event("post_field_modification", t, FieldModification)

\* The four monitor posts.
post_monitor_contended_enter(t) ==
  post_thread_event("post_monitor_contended_enter", t, MonitorContendedEnter)

post_monitor_contended_entered(t) ==
  post_thread_event("post_monitor_contended_entered", t, MonitorContendedEntered)

post_monitor_wait(t) == post_thread_event("post_monitor_wait", t, MonitorWait)

post_monitor_waited(t) == post_thread_event("post_monitor_waited", t, MonitorWaited)

\* The common shape of the posts of global events on the current thread:
\* return for a thread that hides its events or that cannot post for another
\* reason, then the loop over the environments that have the event enabled.
post_global_event(name, t, k, dropped) ==
  /\ log' = IF hide[t] \/ dropped
              THEN <<>>
              ELSE Invoke(global_event_envs(k), k, t, 0)
  /\ posted' = <<>>
  /\ lastOp' = Op(name, t, 0, ~(hide[t] \/ dropped))
  /\ UNCHANGED <<extVars, phase, regVars, threadVars, locVars, histVars, collVars>>

\* JvmtiExport::post_native_method_bind
post_native_method_bind(t) ==
  post_global_event("post_native_method_bind", t, NativeMethodBind, FALSE)

\* JvmtiExport::post_resource_exhausted: nothing is posted either from a
\* thread that cannot call Java.
post_resource_exhausted(t, can_call_java) ==
  post_global_event("post_resource_exhausted", t, ResourceExhausted, ~can_call_java)

\* The tag map of environment e posts the pending tags on thread t:
\* JvmtiExport::post_object_free(env, objects).
post_object_free_events(e, t) ==
  /\ e \in 1..Len(envs)
  /\ object_free_events # <<>>
  /\ log' = post_object_free(e, t, object_free_events)
  /\ object_free_events' = <<>>
  /\ posted' = <<>>
  /\ lastOp' = Op("post_object_free", t, e, ~hide[t])
  /\ UNCHANGED <<excVars, callVars, fieldVars, modVars, startVars, hookVars, lockVars, popVars, lastVars,
                 death_pc, death_i, phase, regVars, threadVars, locVars, histVars, collVars>>

\* The environments that get FramePop for the frame that t is leaving.
frame_pop_envs(t) ==
  SelectSeq(JvmtiEnvIterator,
            LAMBDA e : ets_is_frame_pop(t, e) /\ ets_is_enabled(t, e, FramePop))

\* JvmtiExport::post_method_exit with post_method_exit_inner as one step:
\* nothing for a thread without state or not in interp-only mode; nothing for
\* a thread that hides its events; else the MethodExit callbacks, the
\* FramePop callbacks, the removal of the frame's requests and the decrement
\* of the cached depth.
post_method_exit(t) ==
  LET returns == ~get_jvmti_thread_state(t) \/ ~is_interp_only_mode(t) \/ hide[t]
  IN  /\ exit_pc[t] = "idle"
      /\ cur_stack_depth[t] # 0
      /\ resolve_state(t)
      /\ log' = IF returns
                  THEN <<>>
                  ELSE Invoke(SelectSeq(JvmtiEnvIterator,
                                        LAMBDA e : ets_is_enabled(t, e, MethodExit)),
                              MethodExit, t, 0)
                       \o Invoke(frame_pop_envs(t), FramePop, t, 0)
      /\ frame_pops' = IF returns
                         THEN frame_pops
                         ELSE [frame_pops EXCEPT ![t] =
                                 [e \in EnvIds |-> @[e] \ {cur_stack_depth[t]}]]
      /\ cur_stack_depth' = IF returns
                              THEN cur_stack_depth
                              ELSE [cur_stack_depth EXCEPT ![t] = decr_cur_stack_depth(@)]
      /\ posted' = <<>>
      /\ lastOp' = Op("post_method_exit", t, 0, ~returns)
      /\ UNCHANGED <<exc_state, callVars, fieldVars, deathVars, lastVars, modVars, startVars, hookVars,
                     lockVars, phase, regVars, vthread_mounted, hide, locVars, histVars,
                     collVars>>

\* The events of the posts that ask whether the thread hides its events, in
\* the order in which the agent of this scenario enables them.
HiddenKinds ==
  <<ClassFileLoadHook, ClassLoad, ClassPrepare, Breakpoint, SingleStep, Exception,
    FieldAccess, FieldModification, MethodEntry, MethodExit, FramePop,
    MonitorContendedEnter, MonitorContendedEntered, MonitorWait, MonitorWaited,
    VMObjectAlloc, SampledObjectAlloc, NativeMethodBind, ObjectFree, ResourceExhausted>>

\* The posts that ask whether the thread hides its events.
HidingPosts ==
  {"post_class_file_load_hook", "post_class_load", "post_class_prepare",
   "post_raw_breakpoint", "post_single_step", "post_exception_throw",
   "post_field_access", "post_field_modification", "post_method_entry",
   "post_method_exit", "post_monitor_contended_enter", "post_monitor_contended_entered",
   "post_monitor_wait", "post_monitor_waited", "post_vm_object_alloc",
   "post_sampled_object_alloc", "post_native_method_bind", "post_object_free",
   "post_resource_exhausted"}

\* One agent with every callback enables the events one after another; t1
\* hides its events or not, and runs into every post.
NextHide ==
  \/ envs = <<>> /\ get_jvmti_interface(JVMTI_VERSION_1_2, {}, Kinds)
  \/ \E i \in 1..Len(HiddenKinds) :
       /\ envs # <<>>
       /\ \A j \in 1..(i - 1) : HiddenKinds[j] \in envs[1].enabled
       /\ set_event_enabled(1, HiddenKinds[i], NoThread, TRUE)
  \/ \E on \in BOOLEAN : set_hide("t1", on)
  \/ post_class_file_load_hook("t1", "load", NoNewData)
  \/ post_class_load("t1")
  \/ post_class_prepare("t1")
  \/ post_raw_breakpoint("t1", 1)
  \/ post_single_step("t1", 1, FALSE)
  \/ post_exception_throw("t1")
  \/ clear_detected_exception("t1")
  \/ post_field_access("t1")
  \/ post_field_modification("t1")
  \/ post_method_entry("t1", FALSE)
  \/ NotifyFramePop("t1", 1, cur_stack_depth["t1"])
  \/ post_method_exit("t1")
  \/ post_monitor_contended_enter("t1")
  \/ post_monitor_contended_entered("t1")
  \/ post_monitor_wait("t1")
  \/ post_monitor_waited("t1")
  \/ post_vm_object_alloc("t1", 1)
  \/ post_sampled_object_alloc("t1", 1)
  \/ post_native_method_bind("t1")
  \/ object_freed(1)
  \/ post_object_free_events(1, "t1")
  \/ \E can_call_java \in BOOLEAN : post_resource_exhausted("t1", can_call_java)

SpecHide == InitLive /\ [][NextHide]_vars

\* C36: a post on a thread that hides its events invokes no callback, for
\* each of the posts of class file load hook, class load, class prepare,
\* breakpoint, single step, exception, field access, field modification,
\* method entry, method exit, the four monitor events, VM and sampled object
\* allocation, native method bind, object free and resource exhausted.
C36_HiddenThreadPostsNothing ==
  (lastOp.op \in HidingPosts /\ hide[lastOp.thread]) => log = <<>>

\* t1 hides its events and has waited on a monitor while the agent had every
\* event enabled with a callback: nothing was delivered.
C36_Witness ==
  /\ lastOp.op = "post_monitor_waited"
  /\ lastOp.thread = "t1"
  /\ hide["t1"]
  /\ has_state["t1"]
  /\ Len(envs) = 1
  /\ \A i \in 1..Len(HiddenKinds) :
       HiddenKinds[i] \in envs[1].enabled /\ has_callback(1, HiddenKinds[i])
  /\ log = <<>>

-----------------------------------------------------------------------------
(* Marks and flushes of the object allocation collectors *)

\* One agent turns VMObjectAlloc and SampledObjectAlloc on and off while t1
\* nests collectors and NoJvmtiVMObjectAllocMark scopes, allocates, and
\* flushes its collectors record by record, the callbacks of a record running
\* on t1 before the next.
NextNoAlloc ==
  \/ envs = <<>> /\ get_jvmti_interface(JVMTI_VERSION_1_2, {}, Kinds)
  \/ \E k \in {VMObjectAlloc, SampledObjectAlloc}, on \in BOOLEAN :
       set_event_enabled(1, k, NoThread, on)
  \/ \E ck \in {"vm_object_alloc", "sampled_object_alloc"} : create_collector("t1", ck, TRUE)
  \/ destroy_collector("t1")
  \/ flush_begin("t1")
  \/ flush_post("t1")
  \/ flush_end("t1")
  \/ create_mark_within("t1", MaxMarkDepth)
  \/ destroy_mark("t1")
  \/ record_vm_internal_object_allocation("t1", 1, FALSE)
  \/ record_sampled_internal_object_allocation("t1", 1)

SpecNoAlloc == InitLive /\ [][NextNoAlloc]_vars

\* The marks open on t, and those whose constructor disabled a collector.
OpenMarks(t) ==
  {i \in 1..Len(scopes[t]) : scopes[t][i].kind = NoJvmtiVMObjectAllocMark}

EffectiveMarks(t) == {i \in OpenMarks(t) : scopes[t][i].collector # 0}

\* The statement as worded: no allocation is recorded while a mark is open.
C37_NothingRecordedUnderAnyMark ==
  [][\A t \in Threads :
       (/\ lastOp'.op = "record_vm_internal_object_allocation"
        /\ lastOp'.thread = t
        /\ lastOp'.flag) => OpenMarks(t) = {}]_vars

\* C37: a mark that finds an enabled VM object allocation collector in the
\* thread's slot while VMObjectAlloc is enabled keeps that collector disabled
\* and in the slot for as long as the mark is open, through any marks nested
\* in it, and no allocation is recorded meanwhile; a collector that a flush
\* disabled stays disabled through the marks of its callbacks; and when any
\* mark is destroyed the enabled flag of the collector it found is what it
\* was when the mark was created.
C37_MarkKeepsFlag ==
  /\ [](\A t \in Threads :
          /\ \A i \in EffectiveMarks(t) :
               /\ ~scopes[t][scopes[t][i].collector].enable
               /\ slot[t]["vm_object_alloc"] = scopes[t][i].collector
          /\ flush[t].id # 0 => ~scopes[t][flush[t].id].enable)
  /\ [][\A t \in Threads :
          /\ (/\ lastOp'.op = "destroy_mark"
              /\ lastOp'.thread = t
              /\ Top(t).before # 0) =>
               scopes'[t][Top(t).before].enable = Top(t).born_enabled
          /\ (/\ lastOp'.op = "record_vm_internal_object_allocation"
              /\ lastOp'.thread = t
              /\ lastOp'.flag) => EffectiveMarks(t) = {}]_vars

\* An inner mark of t1 has just been destroyed inside an outer mark that had
\* disabled the collector: the collector is still disabled.
C37_Witness ==
  /\ lastOp.op = "destroy_mark"
  /\ lastOp.thread = "t1"
  /\ ~lastOp.flag
  /\ Len(scopes["t1"]) = 2
  /\ scopes["t1"][1].kind = "vm_object_alloc"
  /\ scopes["t1"][2].kind = NoJvmtiVMObjectAllocMark
  /\ scopes["t1"][2].collector = 1
  /\ scopes["t1"][2].born_enabled
  /\ ~scopes["t1"][1].enable
  /\ scopes["t1"][1].buf # <<>>

\* The kind of the collector that t is flushing.
FlushKind(t) == scopes[t][flush[t].id].kind

\* The thread is in a flush that has invoked a callback.
InFlushCallback(t) == flush[t].id # 0 /\ flush[t].called

\* The statement as worded: once a flush has invoked a callback, until the
\* flush ends, the thread records no allocation in any collector and no
\* object allocation collector installs itself.
C38_NothingRecordedInFlush ==
  [][\A t \in Threads :
       (InFlushCallback(t) /\ lastOp'.thread = t) =>
         /\ lastOp'.op \in {"record_vm_internal_object_allocation",
                            "record_sampled_internal_object_allocation"} => ~lastOp'.flag
         /\ lastOp'.op = "create_collector" => ~lastOp'.flag]_vars

\* C38: once the flush of an object allocation collector has invoked a
\* callback, until the flush ends, the thread records no allocation of the
\* flushing collector's kind, a collector of that kind that is created does
\* not install itself, and its destructor posts nothing.
C38_NoReentryOfSameKind ==
  [][\A t \in Threads :
       (InFlushCallback(t) /\ lastOp'.thread = t) =>
         /\ (/\ lastOp'.op = "record_vm_internal_object_allocation"
             /\ FlushKind(t) = "vm_object_alloc") => ~lastOp'.flag
         /\ (/\ lastOp'.op = "record_sampled_internal_object_allocation"
             /\ FlushKind(t) = "sampled_object_alloc") => ~lastOp'.flag
         /\ (lastOp'.op = "create_collector" /\ lastOp'.arg = FlushKind(t)) => ~lastOp'.flag
         /\ (lastOp'.op = "destroy_collector" /\ lastOp'.arg = FlushKind(t)) =>
              posted' = <<>>]_vars

\* In a callback of the flush of its VM object allocation collector, t1 has
\* created another one while the event was enabled: it did not install itself.
C38_Witness ==
  /\ lastOp.op = "create_collector"
  /\ lastOp.thread = "t1"
  /\ lastOp.arg = "vm_object_alloc"
  /\ ~lastOp.flag
  /\ InFlushCallback("t1")
  /\ flush["t1"].id = 1
  /\ Len(scopes["t1"]) = 2
  /\ scopes["t1"][2].born_enabled
  /\ slot["t1"]["vm_object_alloc"] = 1

-----------------------------------------------------------------------------
(* Dynamic code generated while the thread holds locks *)

\* The thread takes the VM lock.
vm_lock(t) ==
  /\ lock_owner = NoThread
  /\ lock_owner' = t
  /\ log' = <<>>
  /\ posted' = <<>>
  /\ lastOp' = Op("vm_lock", t, 0, TRUE)
  /\ UNCHANGED <<excVars, callVars, fieldVars, modVars, startVars, hookVars, exit_pc, exit_i,
                 lateVars, phase, regVars, threadVars, locVars, histVars, collVars>>

\* The thread gives the VM lock back.
vm_unlock(t) ==
  /\ lock_owner = t
  /\ lock_owner' = NoThread
  /\ log' = <<>>
  /\ posted' = <<>>
  /\ lastOp' = Op("vm_unlock", t, 0, TRUE)
  /\ UNCHANGED <<excVars, callVars, fieldVars, modVars, startVars, hookVars, exit_pc, exit_i,
                 lateVars, phase, regVars, threadVars, locVars, histVars, collVars>>

\* One agent turns DynamicCodeGenerated on and off; t1 opens and closes
\* dynamic code collectors and generates stubs while it holds the VM lock,
\* which both threads take and give back; the service thread posts what is
\* deferred.
NextDynamic ==
  \/ envs = <<>> /\ get_jvmti_interface(JVMTI_VERSION_1_2, {}, Kinds)
  \/ \E on \in BOOLEAN : set_event_enabled(1, DynamicCodeGenerated, NoThread, on)
  \/ create_collector("t1", "dynamic_code", TRUE)
  \/ destroy_collector("t1")
  \/ \E t \in Threads : vm_lock(t)
  \/ \E t \in Threads : vm_unlock(t)
  \/ \E obj \in Objects :
       owns_locks("t1") /\ post_dynamic_code_generated_while_holding_locks("t1", obj)
  \/ service_thread_post

SpecDynamic == InitLive /\ [][NextDynamic]_vars

\* The step is post_dynamic_code_generated_while_holding_locks on t.
PostsHoldingLocks(t) ==
  lastOp'.op = "post_dynamic_code_generated_while_holding_locks" /\ lastOp'.thread = t

\* C39: post_dynamic_code_generated_while_holding_locks invokes no callback
\* and leaves the deferred queue as it is: the stub is appended to the
\* thread's installed dynamic code collector, or dropped if the thread has no
\* state or no installed collector.  A step that posts or defers dynamic code
\* is the destruction of a dynamic code collector by a thread that owns no
\* locks, and posts the collector's stubs in the order of their registration.
C39_StubsWaitForTheCollector ==
  [][/\ \A t \in Threads :
          PostsHoldingLocks(t) =>
            LET c == slot[t]["dynamic_code"]
            IN  /\ log' = <<>>
                /\ posted' = <<>>
                /\ deferred' = deferred
                /\ slot' = slot
                /\ IF has_state'[t] /\ c # 0
                     THEN /\ lastOp'.flag
                          /\ \E obj \in Objects :
                               scopes' = [scopes EXCEPT ![t][c].buf = Append(@, obj)]
                     ELSE /\ ~lastOp'.flag
                          /\ scopes' = scopes
     /\ (lastOp'.op # "service_thread_post" /\ (posted' # <<>> \/ deferred' # deferred)) =>
          /\ lastOp'.op = "destroy_collector"
          /\ LET t == lastOp'.thread
             IN  /\ Top(t).kind = "dynamic_code"
                 /\ ~owns_locks(t)
                 /\ posted' = [i \in 1..Len(Top(t).buf) |->
                                 Post(DynamicCodeGenerated, Top(t).buf[i])]
                 /\ deferred' = deferred \o posted']_vars

\* t1 holds the lock and has registered a second stub with its collector
\* while an agent has DynamicCodeGenerated enabled with a callback: no
\* callback was invoked and nothing is deferred.
C39_Witness ==
  /\ lastOp.op = "post_dynamic_code_generated_while_holding_locks"
  /\ lastOp.thread = "t1"
  /\ lastOp.flag
  /\ owns_locks("t1")
  /\ Len(envs) = 1
  /\ env_is_enabled(1, DynamicCodeGenerated)
  /\ has_callback(1, DynamicCodeGenerated)
  /\ slot["t1"]["dynamic_code"] # 0
  /\ Len(scopes["t1"][slot["t1"]["dynamic_code"]].buf) = 2
  /\ log = <<>>
  /\ deferred = <<>>

-----------------------------------------------------------------------------
(* The constructor of the class-file-load-hook poster and the default read edges *)

\* ModuleEntry::is_named
is_named(m) == m # "unnamed"

\* Mutant: the setter reports that the flag was not set, whatever it was.
set_has_default_read_edges_unchecked(m) ==
  [prev |-> FALSE, flags |-> [has_default_read_edges EXCEPT ![m] = TRUE]]

\* ModuleEntry::set_has_default_read_edges: sets the flag and returns what it
\* was, as one atomic step.
set_has_default_read_edges(m) ==
  [prev |-> has_default_read_edges[m],
   flags |-> [has_default_read_edges EXCEPT ![m] = TRUE]]

\* The constructor up to its test of the module of the class being redefined
\* (in module m): a thread without state, the load kind load and a module
\* that is unnamed or is seen to have its default read edges go no further.
poster_ctor_test(t, load_kind, m) ==
  LET goes_on == /\ get_jvmti_thread_state(t)
                 /\ load_kind # "load"
                 /\ is_named(m)
                 /\ ~has_default_read_edges[m]
  IN  /\ poster_pc[t].pc = "idle"
      /\ resolve_state(t)
      /\ poster_pc' = IF goes_on
                        THEN [poster_pc EXCEPT ![t] = [pc |-> "set", module |-> m]]
                        ELSE poster_pc
      /\ log' = <<>>
      /\ posted' = <<>>
      /\ lastOp' = Op("poster_ctor_test", t, 0, goes_on)
      /\ UNCHANGED <<excVars, callVars, fieldVars, modVars, startVars, hookVars, lockVars,
                     deathVars, popVars, flushVars, has_default_read_edges,
                     default_read_edges_added, phase, regVars, vthread_mounted, hide, locVars,
                     histVars, collVars>>

\* if (!module_entry->set_has_default_read_edges()): the thread that finds
\* the flag unset has won the race.
poster_ctor_set(t) ==
  LET r == set_has_default_read_edges(poster_pc[t].module)
  IN  /\ poster_pc[t].pc = "set"
      /\ has_default_read_edges' = r.flags
      /\ poster_pc' = [poster_pc EXCEPT ![t] =
                         IF r.prev THEN PosterIdle ELSE [pc |-> "add", module |-> @.module]]
      /\ log' = <<>>
      /\ posted' = <<>>
      /\ lastOp' = Op("poster_ctor_set", t, 0, ~r.prev)
      /\ UNCHANGED <<excVars, callVars, fieldVars, modVars, startVars, hookVars, lockVars,
                     deathVars, popVars, flushVars, default_read_edges_added, phase, regVars,
                     threadVars, locVars, histVars, collVars>>

\* The winner calls JvmtiExport::add_default_read_edges, which clears what
\* the up-call leaves pending, and the constructor goes on.
poster_ctor_add(t) ==
  /\ poster_pc[t].pc = "add"
  /\ default_read_edges_added' =
       [default_read_edges_added EXCEPT ![poster_pc[t].module] = Append(@, t)]
  /\ pending_exception' = [pending_exception EXCEPT ![t] = NoException]
  /\ poster_pc' = [poster_pc EXCEPT ![t] = PosterIdle]
  /\ log' = <<>>
  /\ posted' = <<>>
  /\ lastOp' = Op("poster_ctor_add", t, 0, TRUE)
  /\ UNCHANGED <<excVars, callVars, fieldVars, startVars, hookVars, lockVars, deathVars,
                 popVars, flushVars, has_default_read_edges, phase, regVars, threadVars,
                 locVars, histVars, collVars>>

\* Agents register and subscribe to the class-file-load hook, which gives the
\* threads their state; both threads construct posters for loads,
\* redefinitions and retransformations of classes of the three modules, step
\* by step.
NextEdges ==
  \/ get_jvmti_interface(JVMTI_VERSION_1_2, {}, Kinds)
  \/ \E e \in EnvIds, on \in BOOLEAN : set_event_enabled(e, ClassFileLoadHook, NoThread, on)
  \/ \E t \in Threads, load_kind \in LoadKinds, m \in Modules : poster_ctor_test(t, load_kind, m)
  \/ \E t \in Threads : poster_ctor_set(t)
  \/ \E t \in Threads : poster_ctor_add(t)

SpecEdges == InitLive /\ [][NextEdges]_vars

\* A thread that has begun its constructor runs it to its end.
SpecEdgesLive ==
  /\ SpecEdges
  /\ \A t \in Threads : WF_vars(poster_ctor_set(t)) /\ WF_vars(poster_ctor_add(t))

\* The threads that have won the race for m and have yet to make the call.
Winners(m) == {t \in Threads : poster_pc[t] = [pc |-> "add", module |-> m]}

\* The threads that have passed the test for m and have yet to set the flag.
Racing(m) == {t \in Threads : poster_pc[t] = [pc |-> "set", module |-> m]}

=============================================================================
